---- MODULE Spec2Model ----
(***************************************************************************)
(* Lunar <-> solar conversion of ziweidoushu_core/calendar/lunar.py.       *)
(*                                                                         *)
(* The library is a set of pure functions.  Each is an operator below,     *)
(* written line by line from its Python body; the state machine is the     *)
(* caller of tests/test_lunar.py and app/main.py: it picks arguments,      *)
(* applies one function, keeps the arguments and the returned value, and   *)
(* may feed a returned lunar date back into lunar_to_solar.                *)
(*                                                                         *)
(* Floating point.  Python evaluates the two astronomical series in IEEE   *)
(* double precision.  Their values at the lunations k = -20 .. 2580        *)
(* (years 1898 .. 2108) are tabulated: NewMoonHour[k] is                   *)
(* floor((JdNew + 0.5) * 24) of line 111-113 and SunLongMicro<tz>[k] is    *)
(* floor(L * 10^6) of line 127 at _new_moon_day(k, tz).  The remaining     *)
(* float expressions divide by decimal constants and truncate; they are    *)
(* evaluated exactly in scaled integers.                                   *)
(***************************************************************************)
EXTENDS Integers, Sequences, FiniteSets, TLC

VARIABLES
  pc,      \* "idle", or the name of the function that returned last
  arg,     \* the arguments of that call
  ret,     \* what it returned (its locals at exit included)
  origin   \* the Gregorian input a chained call started from, else NoValue

vars == <<pc, arg, ret, origin>>

NoValue == "none"

\* ------------------------------------------------------------- bounds

\* Gregorian years the callers draw dates from.
MinYear == 1900
MaxYear == 2100

\* Fixed-offset IANA zones: UTC, UTC+7 (the offset of Asia/Ho_Chi_Minh
\* since 1975) and UTC+8.
Zones == {"Etc/UTC", "Etc/GMT-7", "Etc/GMT-8"}

\* ---------------------------------------------------- integer helpers

\* Python's int(x / y) on integers x, y > 0: truncation toward zero.
TruncDiv(x, y) == IF x >= 0 THEN x \div y ELSE -((-x) \div y)

CeilDiv(x, y) == -((-x) \div y)

\* ----------------------------------------------------------- timezone

\* _tz_offset_hours: the zone's whole-hour offset at local noon of the date.
\* The zones drawn are fixed-offset zones, so the date does not matter.
_tz_offset_hours(tz_str, d) ==
  CASE tz_str = "Etc/UTC" -> 0
    [] tz_str = "Etc/GMT-7" -> 7
    [] tz_str = "Etc/GMT-8" -> 8

\* ----------------------------------------------------------- Julian day

_jd_from_date(dd, mm, yy) ==
  LET a == (14 - mm) \div 12
      y == yy + 4800 - a
      m == mm + 12 * a - 3
  IN  dd + (153 * m + 2) \div 5 + 365 * y + y \div 4 - y \div 100 + y \div 400 - 32045

\* _jd_to_date without the year carry of January and February (line 70).
_jd_to_date_no_carry(jd) ==
  LET a == jd + 32044
      b == (4 * a + 3) \div 146097
      c == a - (b * 146097) \div 4
      d == (4 * c + 3) \div 1461
      e == c - (1461 * d) \div 4
      m == (5 * e + 2) \div 153
      day == e - (153 * m + 2) \div 5 + 1
      month == m + 3 - 12 * (m \div 10)
      year == b * 100 + d - 4800
  IN  <<day, month, year>>

_jd_to_date(jd) ==
  LET a == jd + 32044
      b == (4 * a + 3) \div 146097
      c == a - (b * 146097) \div 4
      d == (4 * c + 3) \div 1461
      e == c - (1461 * d) \div 4
      m == (5 * e + 2) \div 153
      day == e - (153 * m + 2) \div 5 + 1
      month == m + 3 - 12 * (m \div 10)
      year == b * 100 + d - 4800 + m \div 10
  IN  <<day, month, year>>

\* datetime.date: the days a month of the proleptic Gregorian calendar has.
IsLeapYear(y) == (y % 4 = 0 /\ y % 100 # 0) \/ y % 400 = 0

DaysInMonth(m, y) ==
  CASE m \in {1, 3, 5, 7, 8, 10, 12} -> 31
    [] m \in {4, 6, 9, 11} -> 30
    [] OTHER -> IF IsLeapYear(y) THEN 29 ELSE 28

\* ------------------------------------------------------------- tables

NewMoonHour ==
  << 57946332, 57947044, 57947755, 57948466, 57949176, 57949884, 57950592, 57951299, 57952006, 57952713,
     57953419, 57954126, 57954833, 57955542, 57956252, 57956963, 57957675, 57958387, 57959098, 57959808,
     57960517, 57961225, 57961931, 57962636, 57963341, 57964046, 57964753, 57965461, 57966171, 57966883,
     57967597, 57968311, 57969023, 57969734, 57970442, 57971148, 57971853, 57972557, 57973261, 57973966,
     57974672, 57975381, 57976093, 57976807, 57977522, 57978237, 57978949, 57979658, 57980365, 57981070,
     57981774, 57982477, 57983180, 57983885, 57984593, 57985304, 57986018, 57986733, 57987448, 57988162,
     57988873, 57989581, 57990286, 57990990, 57991692, 57992395, 57993100, 57993807, 57994517, 57995229,
     57995943, 57996659, 57997373, 57998085, 57998794, 57999501, 58000205, 58000908, 58001612, 58002317,
     58003023, 58003731, 58004442, 58005155, 58005869, 58006583, 58007295, 58008005, 58008713, 58009420,
     58010125, 58010829, 58011534, 58012240, 58012948, 58013657, 58014367, 58015079, 58015792, 58016504,
     58017215, 58017924, 58018633, 58019340, 58020046, 58020752, 58021458, 58022165, 58022873, 58023582,
     58024291, 58025001, 58025711, 58026423, 58027134, 58027845, 58028554, 58029262, 58029970, 58030677,
     58031384, 58032090, 58032797, 58033503, 58034211, 58034920, 58035631, 58036342, 58037054, 58037766,
     58038477, 58039187, 58039896, 58040602, 58041308, 58042012, 58042717, 58043423, 58044130, 58044839,
     58045551, 58046264, 58046978, 58047691, 58048403, 58049113, 58049820, 58050525, 58051229, 58051933,
     58052637, 58053342, 58054050, 58054760, 58055473, 58056189, 58056904, 58057617, 58058328, 58059036,
     58059742, 58060446, 58061149, 58061852, 58062556, 58063262, 58063972, 58064684, 58065399, 58066115,
     58066829, 58067542, 58068251, 58068958, 58069662, 58070365, 58071067, 58071771, 58072477, 58073186,
     58073897, 58074610, 58075325, 58076040, 58076753, 58077464, 58078171, 58078877, 58079580, 58080284,
     58080988, 58081694, 58082401, 58083111, 58083822, 58084536, 58085250, 58085963, 58086674, 58087383,
     58088090, 58088796, 58089501, 58090206, 58090912, 58091618, 58092326, 58093036, 58093747, 58094459,
     58095171, 58095882, 58096593, 58097302, 58098010, 58098717, 58099423, 58100130, 58100836, 58101544,
     58102251, 58102960, 58103669, 58104379, 58105090, 58105802, 58106513, 58107223, 58107932, 58108640,
     58109348, 58110055, 58110762, 58111468, 58112174, 58112880, 58113589, 58114299, 58115010, 58115722,
     58116434, 58117146, 58117857, 58118566, 58119274, 58119979, 58120684, 58121389, 58122094, 58122800,
     58123508, 58124218, 58124931, 58125645, 58126359, 58127072, 58127783, 58128491, 58129197, 58129901,
     58130605, 58131308, 58132013, 58132719, 58133428, 58134140, 58134855, 58135570, 58136285, 58136997,
     58137706, 58138413, 58139118, 58139821, 58140524, 58141227, 58141932, 58142640, 58143352, 58144066,
     58144781, 58145496, 58146210, 58146921, 58147629, 58148334, 58149037, 58149740, 58150443, 58151148,
     58151855, 58152565, 58153277, 58153991, 58154706, 58155421, 58156133, 58156842, 58157548, 58158252,
     58158956, 58159660, 58160365, 58161072, 58161780, 58162490, 58163203, 58163916, 58164630, 58165342,
     58166052, 58166760, 58167467, 58168172, 58168878, 58169583, 58170289, 58170996, 58171705, 58172415,
     58173127, 58173839, 58174550, 58175261, 58175971, 58176680, 58177388, 58178094, 58178801, 58179507,
     58180214, 58180922, 58181630, 58182338, 58183047, 58183758, 58184469, 58185181, 58185892, 58186602,
     58187310, 58188019, 58188726, 58189433, 58190139, 58190844, 58191550, 58192258, 58192967, 58193677,
     58194389, 58195102, 58195814, 58196526, 58197236, 58197944, 58198651, 58199356, 58200060, 58200765,
     58201470, 58202177, 58202886, 58203598, 58204311, 58205026, 58205740, 58206452, 58207161, 58207868,
     58208573, 58209277, 58209980, 58210684, 58211389, 58212097, 58212807, 58213521, 58214237, 58214952,
     58215665, 58216376, 58217084, 58217790, 58218493, 58219196, 58219899, 58220603, 58221310, 58222020,
     58222732, 58223447, 58224163, 58224877, 58225589, 58226299, 58227005, 58227709, 58228412, 58229115,
     58229819, 58230525, 58231234, 58231945, 58232658, 58233373, 58234087, 58234801, 58235511, 58236219,
     58236924, 58237628, 58238332, 58239037, 58239742, 58240450, 58241159, 58241870, 58242583, 58243297,
     58244010, 58244721, 58245430, 58246137, 58246843, 58247549, 58248254, 58248960, 58249667, 58250375,
     58251084, 58251795, 58252506, 58253218, 58253929, 58254640, 58255349, 58256058, 58256765, 58257472,
     58258178, 58258885, 58259592, 58260300, 58261007, 58261716, 58262426, 58263137, 58263848, 58264560,
     58265271, 58265980, 58266689, 58267397, 58268104, 58268810, 58269516, 58270221, 58270927, 58271635,
     58272345, 58273057, 58273769, 58274482, 58275194, 58275905, 58276615, 58277322, 58278028, 58278732,
     58279436, 58280141, 58280847, 58281555, 58282265, 58282978, 58283692, 58284407, 58285120, 58285831,
     58286539, 58287245, 58287949, 58288652, 58289356, 58290060, 58290766, 58291475, 58292188, 58292903,
     58293618, 58294333, 58295045, 58295754, 58296461, 58297165, 58297869, 58298571, 58299275, 58299980,
     58300688, 58301400, 58302114, 58302829, 58303544, 58304257, 58304968, 58305676, 58306381, 58307085,
     58307787, 58308491, 58309196, 58309903, 58310613, 58311325, 58312039, 58312754, 58313468, 58314180,
     58314889, 58315595, 58316300, 58317004, 58317708, 58318414, 58319120, 58319828, 58320539, 58321251,
     58321964, 58322677, 58323389, 58324099, 58324807, 58325514, 58326220, 58326926, 58327632, 58328338,
     58329045, 58329754, 58330463, 58331174, 58331885, 58332597, 58333308, 58334018, 58334727, 58335436,
     58336143, 58336849, 58337556, 58338263, 58338970, 58339677, 58340385, 58341094, 58341804, 58342516,
     58343227, 58343939, 58344649, 58345359, 58346067, 58346775, 58347481, 58348187, 58348892, 58349598,
     58350305, 58351013, 58351724, 58352436, 58353149, 58353862, 58354574, 58355285, 58355993, 58356699,
     58357404, 58358108, 58358812, 58359517, 58360224, 58360933, 58361645, 58362359, 58363074, 58363788,
     58364500, 58365210, 58365916, 58366621, 58367324, 58368028, 58368731, 58369437, 58370144, 58370855,
     58371569, 58372285, 58373000, 58373714, 58374424, 58375132, 58375837, 58376541, 58377244, 58377947,
     58378651, 58379358, 58380068, 58380780, 58381495, 58382211, 58382925, 58383637, 58384346, 58385052,
     58385757, 58386460, 58387163, 58387867, 58388574, 58389282, 58389993, 58390706, 58391420, 58392135,
     58392848, 58393558, 58394266, 58394971, 58395675, 58396380, 58397085, 58397791, 58398498, 58399208,
     58399918, 58400631, 58401344, 58402056, 58402767, 58403477, 58404184, 58404891, 58405597, 58406303,
     58407009, 58407716, 58408423, 58409132, 58409842, 58410553, 58411264, 58411975, 58412686, 58413396,
     58414105, 58414813, 58415520, 58416227, 58416934, 58417641, 58418348, 58419055, 58419763, 58420472,
     58421183, 58421895, 58422607, 58423318, 58424028, 58424738, 58425446, 58426153, 58426859, 58427564,
     58428269, 58428974, 58429682, 58430392, 58431103, 58431816, 58432529, 58433242, 58433954, 58434663,
     58435371, 58436076, 58436780, 58437484, 58438188, 58438894, 58439602, 58440312, 58441025, 58441740,
     58442455, 58443169, 58443879, 58444587, 58445293, 58445996, 58446700, 58447403, 58448107, 58448814,
     58449523, 58450236, 58450951, 58451667, 58452381, 58453093, 58453802, 58454509, 58455213, 58455916,
     58456619, 58457322, 58458028, 58458736, 58459448, 58460162, 58460877, 58461592, 58462305, 58463015,
     58463723, 58464428, 58465132, 58465835, 58466539, 58467244, 58467952, 58468662, 58469374, 58470087,
     58470801, 58471515, 58472227, 58472935, 58473642, 58474347, 58475052, 58475756, 58476462, 58477169,
     58477877, 58478587, 58479298, 58480011, 58480724, 58481435, 58482146, 58482854, 58483561, 58484268,
     58484974, 58485680, 58486387, 58487094, 58487802, 58488511, 58489221, 58489932, 58490643, 58491354,
     58492065, 58492775, 58493484, 58494191, 58494898, 58495605, 58496312, 58497018, 58497725, 58498432,
     58499141, 58499851, 58500562, 58501274, 58501986, 58502697, 58503407, 58504116, 58504824, 58505530,
     58506235, 58506940, 58507645, 58508351, 58509060, 58509771, 58510483, 58511197, 58511910, 58512622,
     58513333, 58514042, 58514748, 58515452, 58516156, 58516859, 58517564, 58518271, 58518980, 58519692,
     58520406, 58521122, 58521836, 58522549, 58523258, 58523964, 58524669, 58525372, 58526075, 58526779,
     58527484, 58528192, 58528903, 58529617, 58530333, 58531048, 58531761, 58532472, 58533179, 58533885,
     58534588, 58535291, 58535994, 58536699, 58537406, 58538116, 58538829, 58539543, 58540258, 58540972,
     58541684, 58542393, 58543100, 58543804, 58544507, 58545211, 58545915, 58546622, 58547331, 58548042,
     58548754, 58549468, 58550182, 58550894, 58551605, 58552312, 58553018, 58553723, 58554428, 58555133,
     58555840, 58556547, 58557256, 58557966, 58558678, 58559391, 58560103, 58560814, 58561523, 58562231,
     58562939, 58563645, 58564352, 58565058, 58565765, 58566472, 58567180, 58567890, 58568600, 58569311,
     58570022, 58570733, 58571443, 58572153, 58572862, 58573569, 58574276, 58574983, 58575689, 58576396,
     58577102, 58577810, 58578519, 58579229, 58579942, 58580654, 58581366, 58582077, 58582786, 58583494,
     58584201, 58584907, 58585612, 58586316, 58587021, 58587729, 58588438, 58589150, 58589864, 58590577,
     58591291, 58592002, 58592712, 58593419, 58594124, 58594828, 58595531, 58596235, 58596941, 58597649,
     58598360, 58599073, 58599788, 58600503, 58601217, 58601928, 58602635, 58603340, 58604044, 58604747,
     58605451, 58606155, 58606861, 58607571, 58608283, 58608999, 58609715, 58610429, 58611141, 58611850,
     58612556, 58613260, 58613964, 58614667, 58615370, 58616076, 58616784, 58617496, 58618210, 58618925,
     58619639, 58620352, 58621063, 58621770, 58622476, 58623179, 58623883, 58624587, 58625293, 58626000,
     58626710, 58627422, 58628135, 58628849, 58629562, 58630273, 58630982, 58631689, 58632395, 58633099,
     58633805, 58634511, 58635218, 58635926, 58636635, 58637346, 58638058, 58638770, 58639482, 58640192,
     58640901, 58641609, 58642316, 58643023, 58643729, 58644436, 58645142, 58645850, 58646559, 58647268,
     58647979, 58648689, 58649401, 58650112, 58650822, 58651532, 58652240, 58652947, 58653654, 58654360,
     58655067, 58655773, 58656480, 58657187, 58657897, 58658609, 58659321, 58660034, 58660746, 58661456,
     58662165, 58662872, 58663578, 58664283, 58664988, 58665692, 58666398, 58667107, 58667818, 58668530,
     58669244, 58669958, 58670671, 58671382, 58672090, 58672796, 58673500, 58674203, 58674907, 58675611,
     58676318, 58677028, 58677740, 58678454, 58679170, 58679884, 58680597, 58681306, 58682012, 58682716,
     58683419, 58684122, 58684826, 58685532, 58686240, 58686951, 58687665, 58688381, 58689096, 58689809,
     58690520, 58691227, 58691932, 58692636, 58693339, 58694042, 58694747, 58695454, 58696164, 58696877,
     58697591, 58698306, 58699020, 58699731, 58700440, 58701147, 58701851, 58702555, 58703259, 58703964,
     58704670, 58705379, 58706090, 58706802, 58707515, 58708229, 58708941, 58709651, 58710359, 58711066,
     58711771, 58712476, 58713182, 58713888, 58714596, 58715304, 58716014, 58716726, 58717438, 58718150,
     58718860, 58719570, 58720279, 58720986, 58721694, 58722400, 58723107, 58723813, 58724520, 58725228,
     58725937, 58726647, 58727357, 58728068, 58728779, 58729491, 58730201, 58730910, 58731618, 58732325,
     58733031, 58733738, 58734444, 58735150, 58735857, 58736565, 58737276, 58737988, 58738701, 58739414,
     58740125, 58740835, 58741543, 58742250, 58742955, 58743659, 58744363, 58745069, 58745776, 58746485,
     58747197, 58747911, 58748625, 58749339, 58750051, 58750760, 58751467, 58752172, 58752875, 58753578,
     58754282, 58754988, 58755696, 58756407, 58757121, 58757836, 58758551, 58759265, 58759976, 58760683,
     58761388, 58762092, 58762795, 58763498, 58764203, 58764909, 58765619, 58766331, 58767047, 58767762,
     58768477, 58769189, 58769897, 58770603, 58771308, 58772011, 58772714, 58773418, 58774124, 58774833,
     58775544, 58776258, 58776973, 58777687, 58778399, 58779110, 58779817, 58780523, 58781227, 58781931,
     58782635, 58783341, 58784049, 58784759, 58785470, 58786183, 58786896, 58787609, 58788320, 58789029,
     58789736, 58790442, 58791147, 58791853, 58792559, 58793266, 58793974, 58794683, 58795394, 58796105,
     58796817, 58797528, 58798239, 58798948, 58799656, 58800364, 58801071, 58801778, 58802484, 58803191,
     58803898, 58804606, 58805315, 58806025, 58806736, 58807447, 58808159, 58808870, 58809580, 58810288,
     58810996, 58811703, 58812409, 58813115, 58813820, 58814527, 58815234, 58815944, 58816655, 58817368,
     58818082, 58818794, 58819504, 58820214, 58820921, 58821627, 58822331, 58823035, 58823739, 58824445,
     58825154, 58825865, 58826578, 58827292, 58828006, 58828719, 58829430, 58830138, 58830844, 58831548,
     58832251, 58832954, 58833659, 58834366, 58835075, 58835787, 58836502, 58837218, 58837933, 58838645,
     58839354, 58840060, 58840764, 58841467, 58842170, 58842874, 58843579, 58844287, 58844999, 58845713,
     58846429, 58847144, 58847857, 58848567, 58849274, 58849979, 58850683, 58851386, 58852090, 58852795,
     58853502, 58854212, 58854925, 58855639, 58856354, 58857067, 58857778, 58858487, 58859194, 58859899,
     58860603, 58861307, 58862012, 58862719, 58863428, 58864138, 58864850, 58865563, 58866276, 58866988,
     58867698, 58868406, 58869113, 58869819, 58870524, 58871230, 58871937, 58872645, 58873353, 58874062,
     58874773, 58875484, 58876196, 58876907, 58877617, 58878326, 58879034, 58879742, 58880449, 58881156,
     58881862, 58882569, 58883276, 58883984, 58884693, 58885404, 58886115, 58886826, 58887538, 58888249,
     58888958, 58889667, 58890374, 58891080, 58891786, 58892491, 58893197, 58893904, 58894612, 58895323,
     58896035, 58896749, 58897462, 58898173, 58898884, 58899592, 58900298, 58901003, 58901707, 58902411,
     58903116, 58903823, 58904532, 58905245, 58905959, 58906673, 58907387, 58908099, 58908809, 58909515,
     58910220, 58910923, 58911626, 58912330, 58913035, 58913744, 58914455, 58915168, 58915884, 58916599,
     58917313, 58918024, 58918731, 58919436, 58920139, 58920842, 58921546, 58922250, 58922957, 58923667,
     58924380, 58925095, 58925810, 58926525, 58927236, 58927945, 58928651, 58929355, 58930059, 58930762,
     58931466, 58932172, 58932881, 58933593, 58934306, 58935020, 58935734, 58936446, 58937157, 58937864,
     58938570, 58939275, 58939979, 58940683, 58941390, 58942098, 58942807, 58943518, 58944230, 58944943,
     58945655, 58946367, 58947076, 58947783, 58948490, 58949196, 58949902, 58950608, 58951315, 58952023,
     58952731, 58953441, 58954152, 58954863, 58955575, 58956285, 58956995, 58957704, 58958412, 58959120,
     58959827, 58960533, 58961240, 58961946, 58962654, 58963362, 58964072, 58964782, 58965494, 58966206,
     58966917, 58967628, 58968337, 58969045, 58969751, 58970457, 58971162, 58971868, 58972574, 58973281,
     58973990, 58974702, 58975416, 58976129, 58976842, 58977553, 58978262, 58978969, 58979675, 58980379,
     58981083, 58981787, 58982492, 58983201, 58983912, 58984625, 58985340, 58986054, 58986768, 58987479,
     58988187, 58988892, 58989595, 58990298, 58991001, 58991706, 58992413, 58993123, 58993835, 58994550,
     58995266, 58995981, 58996693, 58997402, 58998107, 58998811, 58999514, 59000217, 59000922, 59001627,
     59002336, 59003047, 59003761, 59004477, 59005192, 59005904, 59006614, 59007322, 59008027, 59008731,
     59009434, 59010138, 59010843, 59011551, 59012261, 59012973, 59013687, 59014401, 59015114, 59015825,
     59016534, 59017241, 59017946, 59018651, 59019355, 59020061, 59020768, 59021477, 59022187, 59022898,
     59023610, 59024323, 59025034, 59025745, 59026453, 59027160, 59027867, 59028573, 59029279, 59029986,
     59030693, 59031401, 59032110, 59032820, 59033531, 59034242, 59034953, 59035664, 59036373, 59037082,
     59037790, 59038498, 59039204, 59039911, 59040617, 59041324, 59042031, 59042740, 59043450, 59044161,
     59044873, 59045585, 59046297, 59047007, 59047715, 59048423, 59049129, 59049834, 59050539, 59051244,
     59051950, 59052659, 59053369, 59054082, 59054796, 59055510, 59056222, 59056932, 59057640, 59058346,
     59059051, 59059755, 59060458, 59061163, 59061870, 59062579, 59063292, 59064006, 59064721, 59065435,
     59066148, 59066857, 59067563, 59068268, 59068970, 59069673, 59070377, 59071083, 59071791, 59072503,
     59073216, 59073932, 59074647, 59075361, 59076071, 59076779, 59077483, 59078187, 59078890, 59079593,
     59080298, 59081005, 59081715, 59082428, 59083143, 59083858, 59084572, 59085283, 59085992, 59086698,
     59087403, 59088106, 59088810, 59089514, 59090221, 59090930, 59091641, 59092354, 59093068, 59093781,
     59094493, 59095203, 59095911, 59096617, 59097322, 59098027, 59098732, 59099438, 59100146, 59100856,
     59101566, 59102278, 59102990, 59103702, 59104413, 59105123, 59105831, 59106537, 59107244, 59107950,
     59108657, 59109364, 59110071, 59110779, 59111488, 59112199, 59112910, 59113621, 59114332, 59115042,
     59115752, 59116461, 59117169, 59117876, 59118582, 59119288, 59119994, 59120701, 59121409, 59122118,
     59122829, 59123540, 59124253, 59124965, 59125676, 59126386, 59127094, 59127800, 59128505, 59129210,
     59129915, 59130621, 59131328, 59132037, 59132749, 59133463, 59134177, 59134890, 59135602, 59136311,
     59137018, 59137723, 59138427, 59139130, 59139834, 59140539, 59141248, 59141959, 59142673, 59143388,
     59144103, 59144816, 59145527, 59146234, 59146940, 59147643, 59148346, 59149049, 59149753, 59150461,
     59151170, 59151883, 59152598, 59153314, 59154028, 59154740, 59155449, 59156155, 59156859, 59157562,
     59158265, 59158969, 59159675, 59160384, 59161095, 59161809, 59162524, 59163239, 59163952, 59164661,
     59165369, 59166074, 59166778, 59167482, 59168186, 59168892, 59169599, 59170309, 59171021, 59171735,
     59172448, 59173161, 59173872, 59174581, 59175288, 59175994, 59176698, 59177403, 59178109, 59178817,
     59179525, 59180235, 59180946, 59181657, 59182369, 59183081, 59183791, 59184500, 59185208, 59185915,
     59186621, 59187328, 59188035, 59188742, 59189449, 59190158, 59190867, 59191578, 59192289, 59193000,
     59193711, 59194421, 59195130, 59195839, 59196547, 59197253, 59197959, 59198665, 59199371, 59200078,
     59200787, 59201497, 59202208, 59202920, 59203633, 59204345, 59205056, 59205764, 59206471, 59207177,
     59207882, 59208586, 59209291, 59209997, 59210706, 59211416, 59212130, 59212844, 59213558, 59214270,
     59214981, 59215689, 59216395, 59217099, 59217802, 59218505, 59219210, 59219917, 59220627, 59221339,
     59222054, 59222769, 59223484, 59224196, 59224905, 59225611, 59226315, 59227018, 59227721, 59228425,
     59229131, 59229839, 59230550, 59231264, 59231980, 59232695, 59233409, 59234119, 59234826, 59235531,
     59236234, 59236937, 59237641, 59238346, 59239053, 59239763, 59240476, 59241191, 59241906, 59242619,
     59243330, 59244039, 59244745, 59245450, 59246154, 59246858, 59247563, 59248269, 59248978, 59249689,
     59250402, 59251115, 59251828, 59252540, 59253250, 59253958, 59254665, 59255370, 59256075, 59256780,
     59257487, 59258195, 59258904, 59259614, 59260325, 59261036, 59261748, 59262460, 59263169, 59263878,
     59264585, 59265292, 59265999, 59266706, 59267413, 59268120, 59268827, 59269536, 59270246, 59270956,
     59271668, 59272379, 59273090, 59273800, 59274509, 59275217, 59275924, 59276631, 59277336, 59278042,
     59278748, 59279456, 59280165, 59280875, 59281587, 59282300, 59283013, 59283725, 59284434, 59285142,
     59285848, 59286553, 59287258, 59287962, 59288668, 59289375, 59290084, 59290796, 59291511, 59292225,
     59292939, 59293650, 59294359, 59295066, 59295771, 59296474, 59297177, 59297881, 59298587, 59299295,
     59300007, 59300721, 59301436, 59302151, 59302864, 59303575, 59304282, 59304987, 59305690, 59306393,
     59307096, 59307801, 59308508, 59309218, 59309931, 59310646, 59311362, 59312076, 59312788, 59313497,
     59314202, 59314906, 59315609, 59316313, 59317017, 59317724, 59318432, 59319143, 59319857, 59320572,
     59321287, 59321999, 59322708, 59323416, 59324121, 59324826, 59325530, 59326234, 59326940, 59327648,
     59328358, 59329070, 59329782, 59330495, 59331208, 59331919, 59332628, 59333335, 59334041, 59334747,
     59335452, 59336158, 59336865, 59337574, 59338283, 59338993, 59339704, 59340416, 59341127, 59341838,
     59342547, 59343255, 59343963, 59344670, 59345377, 59346084, 59346790, 59347497, 59348205, 59348914,
     59349624, 59350335, 59351047, 59351758, 59352469, 59353179, 59353888, 59354595, 59355302, 59356008,
     59356713, 59357419, 59358125, 59358833, 59359543, 59360255, 59360967, 59361681, 59362393, 59363104,
     59363813, 59364520, 59365225, 59365930, 59366634, 59367339, 59368044, 59368752, 59369463, 59370177,
     59370892, 59371606, 59372319, 59373029, 59373737, 59374443, 59375147, 59375850, 59376553, 59377257,
     59377964, 59378674, 59379387, 59380102, 59380817, 59381532, 59382244, 59382953, 59383659, 59384363,
     59385065, 59385768, 59386472, 59387178, 59387887, 59388599, 59389312, 59390028, 59390743, 59391456,
     59392166, 59392873, 59393578, 59394281, 59394985, 59395689, 59396394, 59397102, 59397812, 59398524,
     59399239, 59399953, 59400667, 59401377, 59402086, 59402792, 59403497, 59404202, 59404906, 59405611,
     59406318, 59407027, 59407738, 59408450, 59409163, 59409875, 59410587, 59411297, 59412005, 59412712,
     59413418, 59414123, 59414829, 59415536, 59416244, 59416952, 59417662, 59418372, 59419083, 59419795,
     59420506, 59421216, 59421925, 59422633, 59423341, 59424048, 59424755, 59425461, 59426168, 59426875,
     59427583, 59428292, 59429003, 59429714, 59430426, 59431137, 59431848, 59432558, 59433266, 59433973,
     59434679, 59435384, 59436090, 59436796, 59437503, 59438211, 59438922, 59439634, 59440348, 59441061,
     59441773, 59442483, 59443191, 59443897, 59444601, 59445306, 59446010, 59446715, 59447422, 59448131,
     59448844, 59449558, 59450273, 59450987, 59451698, 59452407, 59453114, 59453819, 59454522, 59455225,
     59455928, 59456634, 59457343, 59458054, 59458768, 59459484, 59460199, 59460912, 59461623, 59462330,
     59463035, 59463738, 59464440, 59465144, 59465849, 59466556, 59467267, 59467979, 59468694, 59469410,
     59470124, 59470836, 59471544, 59472249, 59472953, 59473657, 59474361, 59475065, 59475772, 59476481,
     59477192, 59477905, 59478620, 59479334, 59480046, 59480755, 59481463, 59482169, 59482873, 59483578,
     59484283, 59484989, 59485696, 59486406, 59487118, 59487830, 59488542, 59489254, 59489965, 59490675,
     59491382, 59492089, 59492795, 59493500, 59494207, 59494914, 59495622, 59496331, 59497040, 59497751,
     59498462, 59499174, 59499885, 59500595, 59501303, 59502011, 59502719, 59503426, 59504133, 59504839,
     59505545, 59506252, 59506961, 59507671, 59508382, 59509093, 59509805, 59510516, 59511227, 59511936,
     59512644, 59513351, 59514056, 59514761, 59515466, 59516172, 59516880, 59517590, 59518301, 59519015,
     59519729, 59520442, 59521153, 59521862, 59522568, 59523273, 59523977, 59524681, 59525386, 59526091,
     59526799, 59527511, 59528224, 59528940, 59529654, 59530367, 59531077, 59531785, 59532490, 59533194,
     59533897, 59534600, 59535305, 59536012, 59536722, 59537435, 59538150, 59538865, 59539580, 59540292,
     59541001, 59541706, 59542410, 59543113, 59543816, 59544520, 59545226, 59545935, 59546647, 59547361,
     59548076, 59548791, 59549504, 59550214, 59550921, 59551625, 59552329, 59553033, 59553737, 59554443,
     59555150, 59555860, 59556572, 59557286, 59558001, 59558714, 59559424, 59560133, 59560839, 59561545,
     59562250, 59562954, 59563660, 59564367, 59565075, 59565786, 59566497, 59567210, 59567922, 59568633,
     59569343, 59570052, 59570760, 59571466, 59572172, 59572878, 59573585, 59574292, 59575001, 59575709,
     59576419, 59577130, 59577841, 59578553, 59579263, 59579973, 59580681, 59581389, 59582097, 59582804,
     59583510, 59584216, 59584923, 59585630, 59586339, 59587049, 59587761, 59588473, 59589184, 59589896,
     59590606, 59591315, 59592022, 59592728, 59593432, 59594137, 59594843, 59595550, 59596258, 59596969,
     59597681, 59598395, 59599109, 59599822, 59600532, 59601239, 59601945, 59602649, 59603353, 59604057,
     59604762, 59605469, 59606178, 59606891, 59607606, 59608321, 59609035, 59609747, 59610456, 59611162,
     59611866, 59612569, 59613272, 59613976, 59614681, 59615390, 59616102, 59616816, 59617532, 59618247,
     59618960, 59619670, 59620378, 59621082, 59621785, 59622488, 59623191, 59623897, 59624604, 59625315,
     59626027, 59626742, 59627457, 59628171, 59628883, 59629591, 59630297, 59631001, 59631705, 59632409,
     59633114, 59633820, 59634529, 59635240, 59635953, 59636667, 59637381, 59638093, 59638802, 59639510,
     59640216, 59640921, 59641626, 59642331, 59643037, 59643745, 59644455, 59645165, 59645877, 59646589,
     59647301, 59648012, 59648721, 59649430, 59650137, 59650843, 59651549, 59652256, 59652963, 59653671,
     59654379, 59655088, 59655798, 59656509, 59657220, 59657931, 59658642, 59659351, 59660059, 59660767,
     59661475, 59662181, 59662887, 59663593, 59664300, 59665008, 59665717, 59666428, 59667140, 59667852,
     59668564, 59669275, 59669985, 59670693, 59671399, 59672104, 59672809, 59673514, 59674219, 59674927,
     59675637, 59676348, 59677062, 59677776, 59678490, 59679201, 59679910, 59680616, 59681321, 59682025,
     59682729, 59683433, 59684139, 59684847, 59685558, 59686272, 59686988, 59687703, 59688415, 59689126,
     59689833, 59690538, 59691242, 59691945, 59692648, 59693352, 59694059, 59694770, 59695483, 59696198,
     59696913, 59697628, 59698339, 59699048, 59699754, 59700458, 59701160, 59701863, 59702568, 59703274,
     59703983, 59704695, 59705409, 59706124, 59706838, 59707551, 59708261, 59708968, 59709673, 59710376,
     59711080, 59711785, 59712491, 59713199, 59713908, 59714620, 59715334, 59716048, 59716760, 59717471,
     59718180, 59718887, 59719592, 59720298, 59721003, 59721709, 59722415, 59723124, 59723834, 59724545,
     59725257, 59725968, 59726680, 59727390, 59728099, 59728807, 59729514, 59730220, 59730927, 59731634,
     59732341, 59733049, 59733757, 59734466, 59735176, 59735888, 59736599, 59737310, 59738020, 59738729,
     59739438, 59740145, 59740852, 59741559, 59742264, 59742970, 59743677, 59744385, 59745096, 59745807,
     59746520, 59747232, 59747944, 59748655, 59749364, 59750071, 59750776, 59751480, 59752185, 59752890,
     59753596, 59754305, 59755016, 59755729, 59756443, 59757157, 59757870, 59758580, 59759288, 59759993,
     59760697, 59761401, 59762104, 59762809, 59763516, 59764226, 59764939, 59765654, 59766369, 59767083,
     59767795, 59768504, 59769210, 59769914, 59770617, 59771320, 59772023, 59772729, 59773438, 59774150,
     59774864, 59775580, 59776295, 59777008, 59777718, 59778425, 59779130, 59779833, 59780536, 59781239,
     59781945, 59782653, 59783363, 59784076, 59784790, 59785505, 59786219, 59786930, 59787638, 59788344,
     59789048 >>

SunLongMicro0 ==
  << 1029291, 1530568, 2013239, 2514608, 3021727, 3519714, 4043386, 4556139, 5071828, 5603782,
     6112531, 347468, 840154, 1343174, 1826113, 2326240, 2830830, 3325682, 3846191, 4374493,
     4889619, 5422621, 5933652, 154346, 666999, 1155288, 1655701, 2138510, 2641002, 3132904,
     3650117, 4175755, 4689652, 5223165, 5753860, 6260495, 475889, 983518, 1468517, 1951214,
     2452107, 2941341, 3455255, 3977888, 4507714, 5023303, 5555593, 6082431, 300745, 794155,
     1297682, 1780776, 2263974, 2767809, 3261646, 3781056, 4308509, 4823291, 5356540, 5885857,
     124571, 620762, 1109643, 1610350, 2093080, 2578311, 3086344, 3585382, 4110043, 4623391,
     5156920, 5688216, 6213182, 429366, 937693, 1423098, 1922502, 2406439, 2895070, 3408183,
     3912507, 4441589, 4956979, 5489663, 6017382, 236764, 748094, 1252157, 1735439, 2235162,
     2721778, 3214884, 3733480, 4242609, 4774761, 5290394, 5820436, 42911, 557454, 1063952,
     1548336, 2047672, 2549311, 3039856, 3538105, 4062025, 4574930, 5108420, 5622469, 6148399,
     365660, 874966, 1360972, 1860511, 2360814, 2848866, 3361188, 3864744, 4393244, 4908439,
     5441366, 5952204, 189861, 685032, 1189867, 1673459, 2172988, 2658955, 3168197, 3685976,
     4194444, 4726242, 5259713, 5772490, 6278884, 511053, 1001419, 1486293, 1985632, 2469988,
     2976431, 3490904, 4014067, 4526495, 5059904, 5591961, 6100910, 318962, 829008, 1315490,
     1798532, 2298512, 2785816, 3297080, 3817049, 4327241, 4859900, 5393029, 5921953, 142882,
     638818, 1144251, 1628111, 2110866, 2613063, 3104505, 3621171, 4128707, 4659964, 5193490,
     5724485, 6231595, 464581, 955612, 1457549, 1940266, 2424304, 2930111, 3426515, 3948626,
     4460356, 4993587, 5526076, 6053350, 272189, 782989, 1269976, 1769834, 2252979, 2739764,
     3250265, 3751979, 4278995, 4793577, 5326915, 5856592, 78551, 592535, 1098591, 1582752,
     2082116, 2567227, 3057994, 3573842, 4080671, 4611487, 5127227, 5658790, 6166846, 400945,
     909750, 1395447, 1894913, 2378665, 2883861, 3379494, 3900818, 4411998, 4945050, 5460106,
     5988237, 208138, 719988, 1207702, 1707857, 2207480, 2693774, 3203526, 3704451, 4230796,
     4745055, 5278496, 5791114, 31391, 529163, 1036104, 1520724, 2020057, 2504655, 3011554,
     3526589, 4032693, 4563033, 5078716, 5610653, 6119382, 354299, 846971, 1333295, 1832928,
     2316345, 2820749, 3332550, 3835588, 4363680, 4896510, 5411782, 5940511, 161184, 673819,
     1162100, 1645871, 2145332, 2631003, 3139764, 3639613, 4165009, 4696546, 5230050, 5743128,
     6267340, 482715, 990332, 1475328, 1958032, 2458939, 2948193, 3462128, 3967224, 4496865,
     5030192, 5562466, 6071845, 307577, 800972, 1304493, 1787590, 2270800, 2774654, 3268511,
     3770486, 4297717, 4830183, 5345685, 5875180, 114154, 627584, 1116455, 1617162, 2099901,
     2585148, 3093202, 3592259, 4116934, 4630286, 5163806, 5677459, 6202662, 436194, 927681,
     1429909, 1929319, 2413270, 2901920, 3415054, 3919394, 4448483, 4963869, 5496539, 6006765,
     243599, 737999, 1242253, 1742253, 2225290, 2728621, 3221747, 3740362, 4249502, 4781654,
     5297277, 5827299, 49754, 564278, 1053989, 1555148, 2037833, 2539347, 3046712, 3544980,
     4068915, 4581824, 5115307, 5629340, 6155249, 372491, 864928, 1367783, 1850686, 2350911,
     2855714, 3350839, 3871630, 4400138, 4915330, 5448244, 5959062, 196698, 691852, 1179945,
     1680272, 2163129, 2665795, 3157951, 3675455, 4201337, 4733135, 5248839, 5779356, 2543,
     517879, 1008233, 1493104, 1992450, 2476821, 2983284, 3480485, 4003388, 4533390, 5066792,
     5581170, 6107762, 325794, 835825, 1322301, 1805347, 2305339, 2792661, 3286766, 3806462,
     4334135, 4849002, 5382182, 5911291, 149720, 645639, 1151063, 1634923, 2117688, 2619902,
     3111364, 3610684, 4135599, 4666858, 5182607, 5713741, 6238442, 471408, 962426, 1464360,
     1947084, 2431136, 2936963, 3433386, 3937977, 4467250, 4982688, 5515264, 6042749, 279023,
     772910, 1276787, 1760009, 2259805, 2746608, 3257130, 3758862, 4285888, 4800470, 5316054,
     5845901, 85392, 582364, 1088639, 1589564, 2072272, 2574064, 3064851, 3580719, 4087561,
     4618381, 5134114, 5665660, 6173696, 390675, 899725, 1402258, 1885087, 2385495, 2890710,
     3386364, 3907704, 4418893, 4951941, 5466983, 5995094, 214975, 709878, 1214514, 1698030,
     2197614, 2700616, 3193263, 3711332, 4237689, 4751948, 5285380, 5797979, 38234, 535989,
     1026129, 1527536, 2010222, 2511490, 3001390, 3516153, 4039583, 4552174, 5085604, 5617526,
     6126234, 361130, 853788, 1340106, 1839743, 2323173, 2810676, 3322218, 3842473, 4352872,
     4885611, 5418661, 5947370, 168023, 680640, 1168912, 1652683, 2152155, 2637843, 3129535,
     3646492, 4171901, 4685664, 5219171, 5749995, 6274186, 489542, 997146, 1482139, 1964850,
     2465772, 2955046, 3451727, 3974112, 4486021, 5019294, 5551665, 6078699, 297256, 807790,
     1311305, 1794405, 2277627, 2781499, 3275377, 3777369, 4304610, 4819288, 5352566, 5882042,
     103729, 617429, 1123268, 1607328, 2106722, 2591986, 3100060, 3599137, 4123825, 4637180,
     5152919, 5684329, 6192135, 425941, 934496, 1420047, 1919491, 2420101, 2908770, 3421925,
     3926281, 4455378, 4970760, 5485718, 6013621, 233243, 744819, 1232346, 1732427, 2232115,
     2718589, 3228611, 3747245, 4256395, 4788547, 5304160, 5834163, 56596, 554091, 1060802,
     1545306, 2044652, 2529389, 3036532, 3551856, 4058216, 4588719, 5122195, 5636212, 6162099,
     379321, 871744, 1374594, 1857502, 2357740, 2845626, 3357708, 3861019, 4389320, 4922222,
     5455122, 5965920, 203535, 698673, 1186757, 1687085, 2169952, 2655790, 3164812, 3664943,
     4190585, 4722249, 5255723, 5786222, 9388, 524704, 1015047, 1499916, 1999269, 2483655,
     2973136, 3487359, 3992717, 4522538, 5055896, 5588043, 6097186, 332627, 842642, 1329113,
     1812162, 2312167, 2799507, 3293632, 3813347, 4323337, 4855895, 5389062, 5900622, 139313,
     652461, 1141127, 1641736, 2124510, 2626741, 3118223, 3617563, 4142490, 4655981, 5189493,
     5702991, 6227932, 461172, 969241, 1454504, 1953902, 2437968, 2943815, 3440258, 3944865,
     4474145, 4989578, 5522140, 6032141, 268685, 779729, 1266889, 1766823, 2249929, 2753452,
     3263995, 3765745, 4292782, 4807364, 5322936, 5852765, 74950, 589188, 1078682, 1579727,
     2062430, 2564094, 3071708, 3570257, 4094452, 4625276, 5141001, 5672530, 6180546, 397505,
     906542, 1392390, 1891903, 2375587, 2880608, 3393234, 3897078, 4425787, 4958832, 5473861,
     6001951, 221811, 716699, 1221326, 1704843, 2187752, 2690597, 3200126, 3700803, 4226924,
     4758842, 5292263, 5804844, 45078, 542814, 1032943, 1534348, 2017041, 2501543, 3008245,
     3505726, 4028897, 4559069, 5092493, 5606741, 6133086, 367961, 860605, 1346918, 1846559,
     2330002, 2817523, 3329086, 3831878, 4359766, 4892504, 5407819, 5936717, 174861, 670509,
     1175725, 1659497, 2158978, 2644683, 3136395, 3653372, 4161162, 4692558, 5208290, 5739259,
     6263693, 496369, 987154, 1488951, 1971668, 2472606, 2961899, 3458600, 3981001, 4492916,
     5026184, 5540860, 6068107, 304090, 797719, 1301415, 1801220, 2284454, 2788345, 3282243,
     3784253, 4311504, 4826181, 5359448, 5871359, 110570, 607267, 1113321, 1614141, 2096876,
     2598824, 3089855, 3606015, 4113105, 4644075, 5159806, 5691199, 6198984, 432770, 924479,
     1426859, 1909665, 2410184, 2915621, 3411550, 3933169, 4444547, 4977651, 5510292, 6020478,
     240079, 751638, 1239158, 1722601, 2222246, 2725432, 3218339, 3736698, 4263289, 4777656,
     5311043, 5841027, 63440, 560916, 1067616, 1552119, 2034815, 2536225, 3026360, 3541412,
     4065106, 4595614, 5111303, 5643084, 6168950, 386152, 878561, 1381406, 1864318, 2347841,
     2852474, 3347368, 3867905, 4396215, 4911324, 5444289, 5972779, 210372, 705494, 1193569,
     1693899, 2176776, 2662630, 3171674, 3671823, 4197477, 4711366, 5244848, 5775498, 16233,
     514494, 1021862, 1506728, 2006089, 2490489, 2979990, 3494233, 3999607, 4529433, 5045000,
     5577249, 6104040, 322315, 832585, 1335925, 1818977, 2318995, 2806354, 3300499, 3820232,
     4330232, 4862788, 5378213, 5907484, 128898, 642315, 1147940, 1631904, 2131333, 2616754,
     3125083, 3624441, 4149382, 4662876, 5196379, 5709861, 6234780, 450929, 959237, 1444646,
     1944073, 2444801, 2933690, 3447131, 3951753, 4481040, 4996469, 5529016, 6038997, 275520,
     769643, 1273701, 1756999, 2256756, 2743413, 3253706, 3772628, 4282001, 4814257, 5329819,
     5859628, 81793, 596012, 1085496, 1569888, 2069251, 2554130, 3061520, 3577135, 4101343,
     4614408, 5147889, 5679401, 6187396, 404335, 913358, 1399202, 1882078, 2382418, 2870512,
     3382876, 3903965, 4414966, 4947934, 5480739, 6008809, 228648, 723520, 1228139, 1711657,
     2194577, 2697439, 3189871, 3707685, 4216167, 4747955, 5281394, 5811710, 34612, 549640,
     1039758, 1541160, 2023861, 2508378, 3015100, 3512601, 4035787, 4548215, 5081599, 5613615,
     6122519, 357667, 867422, 1353730, 1853375, 2336831, 2824370, 3335955, 3838763, 4366661,
     4881607, 5414699, 5926057, 164464, 677331, 1182537, 1666310, 2165802, 2651523, 3143256,
     3660252, 4168054, 4699453, 5215177, 5746127, 6253193, 486142, 993969, 1479098, 1978487,
     2462674, 2968752, 3465473, 3987890, 4499812, 5033075, 5547735, 6074962, 293762, 804538,
     1291521, 1791396, 2291281, 2778292, 3289109, 3791137, 4318398, 4833075, 5366329, 5878222,
     117412, 614091, 1120135, 1604305, 2103698, 2588849, 3096714, 3612893, 4119997, 4650970,
     5166693, 5698069, 6205833, 439600, 931296, 1416994, 1916482, 2400271, 2905511, 3418422,
     3922535, 4451442, 4984542, 5499473, 6027335, 246916, 758459, 1245971, 1729416, 2229072,
     2715407, 3225203, 3726161, 4252519, 4784550, 5317926, 5830325, 70283, 567741, 1074430,
     1558931, 2041635, 2543061, 3033216, 3548288, 4054414, 4584753, 5118192, 5649956, 6158400,
     392983, 885379, 1388218, 1871135, 2354670, 2859323, 3354237, 3857303, 4385403, 4918216,
     5433452, 5962134, 199993, 712316, 1200382, 1700713, 2183600, 2669472, 3178536, 3678704,
     4186732, 4718261, 5251734, 5764769, 5750, 521321, 1011877, 1513540, 1996256, 2497324,
     2986844, 3501108, 4006496, 4536329, 5051890, 5584123, 6093457, 329149, 822521, 1326039,
     1825793, 2309108, 2813201, 3307366, 3827117, 4337126, 4869681, 5385094, 5914346, 135739,
     649138, 1137999, 1638717, 2121484, 2623593, 3131943, 3631321, 4156275, 4669772, 5203266,
     5716730, 6241628, 457758, 949227, 1451458, 1934245, 2434879, 2940542, 3436747, 3958642,
     4487936, 5003361, 5535893, 6045853, 282355, 776463, 1263799, 1763814, 2246883, 2750258,
     3243426, 3762074, 4288895, 4821151, 5336702, 5866492, 88636, 602837, 1092310, 1576701,
     2076073, 2560967, 3068377, 3566682, 4090637, 4621303, 5137000, 5668636, 6194246, 411166,
     920175, 1406014, 1888895, 2389249, 2877362, 3372528, 3893347, 4421861, 4937036, 5469911,
     5998180, 235485, 730341, 1234952, 1718472, 2201401, 2704282, 3196734, 3697164, 4223060,
     4754850, 5270523, 5800994, 41457, 539439, 1046573, 1547973, 2030681, 2515213, 3021956,
     3519476, 4025109, 4555110, 5070705, 5602826, 6129372, 364500, 857373, 1360542, 1843552,
     2343660, 2831218, 3342823, 3845649, 4355859, 4888500, 5403855, 5932918, 171304, 667194,
     1172608, 1673124, 2155948, 2658364, 3150117, 3667132, 4174947, 4706348, 5222063, 5735386,
     6260040, 475908, 983972, 1485911, 1968657, 2469507, 2958619, 3472347, 3994779, 4506707,
     5039965, 5554611, 6081817, 300597, 794460, 1298333, 1781572, 2281402, 2768247, 3278812,
     3798021, 4325293, 4839969, 5373212, 5885086, 124253, 620915, 1110184, 1611119, 2093854,
     2595687, 3086517, 3602423, 4126889, 4640100, 5173581, 5704939, 6212683, 446430, 938112,
     1423807, 1923300, 2407103, 2895408, 3408055, 3929423, 4440616, 4973645, 5506351, 6034192,
     253752, 765279, 1252784, 1736230, 2235898, 2722250, 3214940, 3733043, 4241756, 4773662,
     5307061, 5837190, 77127, 574567, 1081245, 1565744, 2048456, 2549898, 3040072, 3537853,
     4061305, 4573895, 5107300, 5639179, 6165252, 382699, 892196, 1378344, 1877952, 2361500,
     2866173, 3361107, 3864189, 4392298, 4907319, 5440332, 5968994, 189605, 702194, 1207196,
     1690885, 2190425, 2676313, 3185399, 3685585, 4193625, 4725156, 5240858, 5771637, 6278444,
     511104, 1018692, 1503690, 2003076, 2504159, 2993699, 3507983, 4013386, 4543225, 5058781,
     5573325, 6100312, 318830, 829340, 1316150, 1815969, 2315937, 2803141, 3314234, 3834002,
     4344021, 4876575, 5391976, 5921208, 142580, 638986, 1144813, 1628884, 2128307, 2613612,
     3121730, 3638200, 4145549, 4676667, 5210153, 5723600, 6248476, 464587, 956044, 1458271,
     1941064, 2424961, 2930424, 3443620, 3948001, 4477101, 5010252, 5542770, 6052710, 289191,
     783283, 1270612, 1770629, 2253710, 2740226, 3250291, 3751528, 4278120, 4810260, 5343585,
     5873356, 95479, 609662, 1099124, 1583514, 2082894, 2567805, 3058197, 3573559, 4079939,
     4610440, 5143889, 5675508, 6183705, 417997, 926992, 1412827, 1895713, 2396080, 2884212,
     3379398, 3900234, 4411045, 4943929, 5476790, 5987544, 225116, 737162, 1225036, 1725287,
     2208227, 2711125, 3203597, 3704046, 4229954, 4743966, 5277408, 5790273, 30983, 546266,
     1036594, 1538128, 2037502, 2522049, 3028812, 3526352, 4032000, 4562007, 5077595, 5609701,
     6118798, 354199, 864191, 1350661, 1850368, 2333769, 2838066, 3349693, 3852535, 4380451,
     4895394, 5410736, 5939779, 160899, 674017, 1162673, 1663294, 2146097, 2648370, 3156978,
     3656637, 4181840, 4713244, 5228950, 5742255, 6266888, 482737, 990788, 1476055, 1975477,
     2459580, 2965472, 3479221, 3984123, 4513603, 5046856, 5561488, 6088673, 307432, 801280,
     1305146, 1788387, 2271526, 2775092, 3285678, 3787459, 4314507, 4846863, 5380094, 5891950,
     131096, 627740, 1116999, 1617932, 2100677, 2585718, 3093376, 3591962, 4116176, 4646996,
     5180469, 5694181, 6219533, 453260, 944929, 1430620, 1930119, 2413935, 2902259, 3414927,
     3918797, 4447512, 4980537, 5495529, 6023572, 260590, 755180, 1259597, 1743046, 2242724,
     2729094, 3221804, 3739926, 4248650, 4780557, 5296194, 5826483, 66671, 581393, 1071278,
     1572558, 2055277, 2556735, 3046929, 3544729, 4068196, 4580792, 5114190, 5628398, 6154695,
     389532, 882154, 1385157, 1884770, 2368331, 2873023, 3367977, 3871076, 4399194, 4914213,
     5447213, 5958344, 196445, 692065, 1197271, 1697699, 2180568, 2683155, 3175160, 3692466,
     4200519, 4732052, 5247744, 5778506, 2107, 517932, 1008702, 1510503, 1993245, 2494222,
     3000554, 3497573, 4020277, 4532379, 5065672, 5580201, 6107167, 325665, 836160, 1322963,
     1806146, 2306054, 2809989, 3303928, 3823424, 4350917, 4865681, 5398858, 5928070, 149422,
     645810, 1151628, 1635698, 2118461, 2620451, 3111525, 3627722, 4152442, 4683563, 5199271,
     5730471, 6255325, 471417, 962861, 1465084, 1947883, 2431794, 2937276, 3433245, 3954890,
     4483998, 4999356, 5531957, 6059567, 278848, 790104, 1277425, 1777445, 2260537, 2747071,
     3257157, 3758412, 4285015, 4799371, 5332725, 5862663, 102323, 599487, 1105939, 1590328,
     2089717, 2574643, 3065055, 3580437, 4086830, 4617336, 5133000, 5664738, 6190557, 407722,
     916964, 1419640, 1902531, 2402912, 2891063, 3386269, 3907122, 4417941, 4950822, 5465960,
     5994403, 214738, 727049, 1231850, 1715460, 2215052, 2701112, 3210461, 3710928, 4236849,
     4750861, 5284294, 5797141, 37830, 536058, 1043410, 1528281, 2027668, 2528885, 3018655,
     3533228, 4038891, 4568903, 5084486, 5616576, 6125653, 361033, 854136, 1357474, 1840545,
     2340599, 2828000, 3339369, 3859422, 4369650, 4902288, 5417618, 5946641, 167740, 680841,
     1169487, 1653462, 2152921, 2638383, 3146757, 3663517, 4188734, 4702367, 5235837, 5749125,
     6273737, 489567, 997605, 1482869, 1965648, 2466415, 2955347, 3468828, 3991013, 4502765,
     5035961, 5568365, 6078077, 314268, 808100, 1311960, 1795204, 2278354, 2781939, 3275390,
     3794344, 4303728, 4835971, 5369241, 5898814, 120666, 634565, 1123814, 1624747, 2107499,
     2592556, 3100236, 3598840, 4123069, 4636130, 5169584, 5701053, 6209002, 443003, 951747,
     1437433, 1936937, 2420767, 2909111, 3421799, 3925686, 4436692, 4969641, 5502408, 6012945,
     250229, 762002, 1266411, 1749861, 2249551, 2735939, 3228669, 3746810, 4255545, 4787453,
     5303079, 5833349, 56208, 571202, 1078094, 1562716, 2062099, 2546782, 3053787, 3551606,
     4075088, 4587688, 5121080, 5635272, 6161548, 379240, 888973, 1375280, 1874946, 2375162,
     2862941, 3374847, 3877963, 4406090, 4921107, 5454093, 5965205, 203285, 698888, 1187342,
     1687871, 2187393, 2673155, 3182023, 3699348, 4207413, 4738948, 5254631, 5785375, 8954,
     524761, 1015518, 1500651, 2000065, 2484290, 2990413, 3504448, 4009613, 4539275, 5072563,
     5587077, 6114022, 332500, 842979, 1329776, 1812962, 2312883, 2799936, 3310796, 3812854,
     4340126, 4872575, 5405741, 5917399, 156264, 652635, 1158442, 1642512, 2125285, 2627292,
     3118385, 3617252, 4141723, 4672691, 5206159, 5719719, 6244812, 478247, 969678, 1471897,
     1954702, 2438627, 2944129, 3440118, 3944257, 4473168, 5006248, 5521141, 6048956, 285685,
     796925, 1284239, 1784261, 2267365, 2753916, 3264023, 3765296, 4274247, 4806267, 5339609,
     5851964, 91877, 606313, 1095979, 1597142, 2079877, 2581481, 3071913, 3587316, 4093723,
     4606476, 5139890, 5671611, 6180010, 414555, 906930, 1409770, 1909349, 2393008, 2897914,
     3393140, 3914010, 4424837, 4957715, 5472840, 6001264, 221577, 733872, 1221931, 1722275,
     2205193, 2707956, 3217325, 3717811, 4243743, 4757757, 5291180, 5804009, 44676, 542886,
     1033426, 1535095, 2017836, 2518943, 3025512, 3522810, 4045782, 4575800, 5091377, 5623451,
     6132508, 367867, 860956, 1347589, 1847362, 2330712, 2834848, 3329055, 3848836, 4376546,
     4909182, 5424500, 5953504, 174582, 687665, 1176302, 1660277, 2159746, 2645224, 3136544,
     3653030, 4178002, 4709263, 5224958, 5755995, 6280585, 496396, 1004422, 1489682, 1972468,
     2473249, 2962201, 3458445, 3980365, 4509662, 5025066, 5557558, 6084934, 321104, 814921,
     1318774, 1802020, 2285182, 2788785, 3282257, 3783790, 4310623, 4825082, 5358384, 5888129,
     127510, 624398, 1130629, 1631561, 2114323, 2599396, 3107095, 3605719, 4112364, 4643027,
     5158697, 5690290, 6215853, 432737, 941726, 1444247, 1927112, 2427600, 2915963, 3428672,
     3932574, 4443588, 4976534, 5491583, 6019804, 257068, 751897, 1256501, 1740036, 2239685,
     2742784, 3235534, 3753694, 4262440, 4794349, 5309965, 5822637, 63054, 561003, 1068122,
     1569530, 2052264, 2553619, 3043622, 3558484, 4081980, 4594585, 5127971, 5642147, 6168402,
     386074, 878925, 1382094, 1865122, 2365266, 2852867, 3364515, 3884851, 4412986, 4928001,
     5460975, 5972067, 210125, 705712, 1194157, 1694686, 2177540, 2679998, 3171793, 3688844,
     4214308, 4728069, 5261518, 5792244, 15803, 531590, 1022335, 1507465, 2006886, 2491125,
     2980279, 3494047, 4016504, 4528434, 5061669, 5593954, 6120878, 339336, 849800, 1336590,
     1819779, 2319712, 2806783, 3300499, 3819739, 4329341, 4861684, 5394892, 5924263, 163106,
     659460, 1165258, 1649327, 2132109, 2634132, 3125246, 3624132, 4148617, 4661823, 5195276,
     5726591, 6251662, 467999, 976496, 1462037, 1961522, 2445461, 2950983, 3446991, 3951146,
     4480065, 4995353, 5528020, 6055814, 275334, 786835, 1291053, 1774437, 2274193, 2760761,
     3270890, 3772180, 4281142, 4813163, 5328747, 5858830, 81423, 596130, 1102795, 1587302,
     2086700, 2588320, 3078772, 3594194, 4100615, 4631130, 5146780, 5660837, 6186863, 404273,
     913749, 1399897, 1899525, 2399840, 2887825, 3400012, 3920899, 4431734, 4964609, 5479721,
     5990623, 228417, 723752, 1228746, 1712448, 2212019, 2697949, 3207079, 3724694, 4232993,
     4764653, 5298066, 5810878, 51523, 549714, 1040243, 1541909, 2024657, 2509006, 3015363,
     3529686, 4035112, 4564951, 5098268, 5630326, 6139363, 374701, 867776, 1354403, 1854180,
     2337542, 2824789, 3335924, 3838258, 4365750, 4898289, 5431383, 5960366, 181423, 694489,
     1183117, 1667092, 2166571, 2652065, 3143405, 3659911, 4167277, 4698390, 5231846, 5762866,
     6270081, 503226, 1011240, 1496497, 1979288, 2480084, 2969055, 3465319, 3987255, 4498829,
     5031959, 5564436, 6074331, 310771, 821742, 1308877, 1808837, 2292011, 2795632, 3289124,
     3790675, 4317519, 4831978, 5365269, 5877437, 117074, 631224, 1120675, 1621725, 2121146,
     2606235, 3113956, 3612599, 4119257, 4649924, 5165587, 5697163, 6205316, 439569, 931699,
     1434380, 1933931, 2417692, 2922815, 3418314, 3939464, 4450485, 4983428, 5498463, 6026664,
     246700, 758720, 1246587, 1746852, 2229823, 2732764, 3242400, 3743164, 4269335, 4801245,
     5316851, 5829505, 69900, 567831, 1074939, 1559686, 2059086, 2543672, 3050480, 3548057,
     4071296, 4601482, 5134861, 5649022, 6175256, 392908, 885745, 1388908, 1871940, 2355375,
     2859717, 3354192, 3874257, 4402181, 4934896, 5450138, 5978929, 216966, 712536, 1200972,
     1701502, 2184365, 2670004, 3178656, 3678349, 4203570, 4734966, 5268406, 5781513, 22651,
     538419, 1029152, 1514280, 2013707, 2497960, 2987134, 3500923, 4005849, 4535331, 5068562,
     5583154, 6110292, 346172, 839732, 1343405, 1826597, 2326542, 2813631, 3307367, 3826626,
     4336237, 4868579, 5384040, 5913586, 152688, 666285, 1155314, 1656143, 2138933, 2640973,
     3132107, 3631012, 4155511, 4668720, 5202166, 5715835, 6241141, 474831, 966482, 1468851,
     1951696, 2452295, 2957837, 3453865, 3958036, 4486963, 5002247, 5534899, 6045197, 282173,
     776738, 1281148, 1781254, 2264324, 2767608, 3260617, 3779065, 4288038, 4820059, 5335632,
     5865697, 88269, 602958, 1092829, 1594117, 2076863, 2578361, 3085631, 3583750, 4107508,
     4620271, 5153670, 5667712, 6193716, 411107, 920568, 1406711, 1889701, 2389941, 2894677,
     3389671, 3910289, 4438631, 4953715, 5486602, 5997484, 235257, 730576, 1235561, 1719264,
     2202163, 2704793, 3196840, 3714181, 4239888, 4771550, 5287196, 5817746, 58370, 556543,
     1047060, 1548724, 2031479, 2515842, 3022219, 3519277, 4042004, 4571849, 5087376, 5619537,
     6146218, 364395, 874596, 1361218, 1860998, 2344372, 2831637, 3342794, 3845145, 4372647,
     4887397, 5420539, 5949704, 188266, 684347, 1189933, 1673908, 2173396, 2658907, 3150267,
     3666793, 4174172, 4705287, 5220967, 5752123, 6276931, 492988, 1001239, 1503311, 1986109,
     2486919, 2975910, 3472194, 3994146, 4505727, 5038852, 5553627, 6081190, 300430, 811660,
     1315692, 1799014, 2298840, 2785593, 3295992, 3797561, 4324415, 4838874, 5372154, 5884303,
     123918, 621051, 1127491, 1611888, 2111305, 2613075, 3103766, 3619479, 4126151, 4656821,
     5172477, 5704037, 6212168, 446402, 938518, 1441195, 1924107, 2424525, 2912719, 3425187,
     3946353, 4457383, 4990322, 5505344, 6033525, 253540, 765543, 1253402, 1737026, 2236650,
     2722751, 3232144, 3750049, 4276231, 4790361, 5323737, 5836373, 76747, 574660, 1081755,
     1566501, 2049252, 2550509, 3040323, 3554935, 4078188, 4590631, 5123972, 5655897, 6164695,
     399742, 892565, 1395722, 1878759, 2362207, 2866567, 3361062, 3881145, 4391381, 4924003,
     5457020, 5985791, 206574, 719360, 1207788, 1708318, 2191191, 2676847, 3185520, 3685231,
     4192839, 4724091, 5257531, 5788383, 12156, 528197, 1035970, 1521094, 2020529, 2504797,
     2993990, 3507799, 4012740, 4524495, 5057669, 5590032, 6099699, 335849, 846553, 1333513,
     1833415, 2316662, 2820480, 3314236, 3833512, 4343134, 4857690, 5390924, 5920451, 142261,
     656128, 1162130, 1646309, 2145758, 2630997, 3138969, 3637893, 4162405, 4675618, 5209055,
     5722708, 6247993, 464576, 973301, 1458989, 1958516, 2442382, 2947726, 3460740, 3964926,
     4493860, 5009141, 5541779, 6052057, 289011, 783561, 1271240, 1771429, 2271152, 2757582,
     3267484, 3785951, 4294934, 4826955, 5342518, 5872564, 95115, 609785, 1099646, 1584275,
     2083686, 2568408, 3075458, 3590629, 4096817, 4627169, 5160561, 5674587, 6200570, 417941,
     927388, 1413526, 1896521, 2396773, 2884595, 3396543, 3899687, 4427821, 4960610, 5493483,
     6004346, 242098, 737400, 1242376, 1726080, 2208990, 2694793, 3203705, 3703678, 4229145,
     4760671, 5294084, 5807023, 47893, 563372, 1053878, 1555539, 2038301, 2522679, 3012078,
     3526154, 4031342, 4561004, 5094269, 5608743, 6135641, 371231, 881417, 1368033, 1867817,
     2351203 >>

SunLongMicro7 ==
  << 1024395, 1525711, 2025037, 2509711, 3016760, 3514664, 4038257, 4550961, 5084424, 5598632,
     6124866, 342473, 852099, 1338307, 1837899, 2321362, 2825892, 3337870, 3841089, 4369328,
     4884430, 5417454, 5928545, 166551, 662055, 1150405, 1650847, 2133646, 2636090, 3145014,
     3645046, 4170610, 4702245, 5217984, 5748728, 6255439, 487964, 978617, 1463656, 1963007,
     2447217, 2953377, 3450216, 3972768, 4502538, 5035902, 5550438, 6077345, 295742, 806115,
     1292811, 1775923, 2275809, 2762880, 3273807, 3775965, 4303350, 4835892, 5351367, 5880743,
     119539, 615811, 1121511, 1605495, 2088218, 2590224, 3081366, 3580322, 4104906, 4635977,
     5151736, 5683076, 6208117, 441460, 932786, 1434907, 1917648, 2401553, 2907088, 3403152,
     3907396, 4436419, 4969580, 5484501, 6012286, 248936, 743162, 1247282, 1747225, 2230292,
     2716856, 3227026, 3728396, 4237457, 4769573, 5302966, 5815312, 55162, 552493, 1059060,
     1560131, 2042813, 2544411, 3034887, 3550378, 4056894, 4587510, 5103234, 5634969, 6143324,
     377780, 870051, 1372790, 1855658, 2355933, 2860866, 3356165, 3877142, 4388077, 4921041,
     5436200, 5964599, 184840, 680090, 1184986, 1668605, 2168122, 2670891, 3163207, 3680900,
     4206946, 4721056, 5254534, 5767360, 7969, 506085, 996520, 1498094, 1980775, 2481870,
     2971471, 3485859, 4008942, 4539068, 5054716, 5586810, 6095828, 331102, 824086, 1310620,
     1810318, 2293637, 2797794, 3292068, 3811953, 4339776, 4854711, 5387859, 5916843, 137852,
     650833, 1139366, 1623256, 2122676, 2608155, 3099525, 3616106, 4141191, 4654780, 5188308,
     5719349, 6243885, 459605, 967522, 1452688, 1935411, 2436174, 2925159, 3421481, 3943510,
     4472918, 4988399, 5520918, 6048259, 284347, 778062, 1281810, 1764981, 2248108, 2751726,
     3245261, 3746893, 4273839, 4788389, 5321740, 5851473, 90788, 587579, 1093702, 1577896,
     2077255, 2562324, 3070072, 3568784, 4075538, 4606305, 5122042, 5653646, 6179162, 395958,
     904839, 1407260, 1890059, 2390524, 2878916, 3391702, 3895709, 4424551, 4939861, 5454941,
     5983137, 203119, 715051, 1219549, 1703003, 2202612, 2705721, 3198530, 3716789, 4225645,
     4757651, 5273319, 5803564, 26342, 524198, 1031208, 1515866, 2015200, 2516546, 3006590,
     3521539, 4045147, 4557855, 5091312, 5605504, 6131717, 349304, 842051, 1345118, 1828075,
     2328190, 2815813, 3327533, 3847974, 4358516, 4891321, 5424332, 5935404, 173389, 668875,
     1157217, 1657659, 2140468, 2626093, 3134779, 3651925, 4159866, 4691361, 5224869, 5755594,
     6262284, 494790, 985431, 1470467, 1969825, 2454049, 2943238, 3457089, 3962106, 4491691,
     5025004, 5557311, 6084198, 302575, 812932, 1299622, 1782737, 2282636, 2769725, 3263504,
     3782848, 4292559, 4824995, 5358248, 5887604, 109119, 622633, 1128323, 1612307, 2095039,
     2597061, 3088224, 3587199, 4111796, 4625103, 5158622, 5689945, 6197595, 431213, 939601,
     1425047, 1924464, 2408384, 2913938, 3410023, 3914283, 4443313, 4958680, 5491378, 6001667,
     238585, 749980, 1237377, 1737399, 2237117, 2723698, 3233890, 3735278, 4262017, 4776466,
     5292100, 5822176, 44708, 559317, 1049094, 1550291, 2049633, 2534448, 3041742, 3557254,
     4063784, 4594404, 5110121, 5641840, 6150174, 367499, 876867, 1362917, 1862473, 2346031,
     2850773, 3363034, 3866526, 4394971, 4927932, 5443078, 5971456, 191677, 686911, 1191798,
     1675418, 2174945, 2660881, 3170068, 3670381, 4196190, 4727949, 5261418, 5774226, 14813,
     512910, 1003334, 1504905, 1987594, 2471929, 2978325, 3475444, 3998266, 4528213, 5061605,
     5593682, 6102680, 337933, 830903, 1317431, 1817133, 2300464, 2787730, 3298934, 3801368,
     4328974, 4861603, 5394738, 5906179, 144691, 657654, 1146178, 1630068, 2129498, 2614994,
     3106384, 3622984, 4130460, 4661674, 5195193, 5708603, 6233380, 466432, 957521, 1459499,
     1942228, 2443006, 2932011, 3428353, 3950398, 4462079, 4995289, 5510104, 6037656, 274015,
     784880, 1271914, 1771795, 2254933, 2758571, 3252126, 3753775, 4280732, 4795282, 5328622,
     5840780, 80352, 594403, 1083748, 1584708, 2067412, 2569161, 3076930, 3575661, 4082428,
     4613200, 5128929, 5660516, 6168624, 402788, 894812, 1397393, 1896875, 2380613, 2885765,
     3381338, 3902595, 4431445, 4946752, 5461819, 5989994, 209956, 721871, 1209635, 1709817,
     2192747, 2695697, 3205393, 3706253, 4232538, 4764545, 5280202, 5810429, 33186, 531023,
     1038022, 1522678, 2005364, 2506595, 3013445, 3511105, 4034456, 4564750, 5080417, 5612376,
     6138567, 356135, 848868, 1351929, 1834890, 2318296, 2822660, 3317204, 3837374, 4365410,
     4898213, 5413493, 5942263, 180227, 675696, 1164029, 1664472, 2147291, 2632932, 3141639,
     3641424, 4166758, 4698255, 5213989, 5744861, 6269129, 484568, 992245, 1477279, 1976643,
     2460882, 2950091, 3463962, 3968994, 4498586, 5014106, 5546509, 6073611, 309408, 802865,
     1306434, 1789551, 2289463, 2776570, 3270370, 3789731, 4299453, 4831887, 5347392, 5876925,
     115959, 612476, 1118380, 1619119, 2101860, 2603900, 3095082, 3594076, 4118688, 4631998,
     5165509, 5679187, 6204443, 420957, 929587, 1431858, 1914637, 2415215, 2903823, 3416894,
     3921170, 4450207, 4965571, 5498254, 6008524, 245421, 739884, 1244189, 1727574, 2227246,
     2730542, 3223612, 3742160, 4251243, 4783360, 5298983, 5829040, 51551, 566141, 1055908,
     1557103, 2039794, 2541284, 3031565, 3546804, 4070674, 4583540, 5117009, 5648711, 6157025,
     374330, 883683, 1369728, 1852648, 2352860, 2840688, 3352688, 3873412, 4401866, 4917033,
     5449956, 5978314, 198514, 693732, 1198610, 1682231, 2165087, 2667722, 3159824, 3677262,
     4203082, 4717064, 5250544, 5781092, 4334, 519736, 1010148, 1511717, 1994412, 2478763,
     2985178, 3482317, 4005155, 4517363, 5050709, 5582891, 6109532, 327627, 837721, 1324243,
     1823948, 2307292, 2794576, 3305801, 3808253, 4335868, 4850706, 5383891, 5913040, 134281,
     647513, 1152991, 1636881, 2136320, 2621833, 3113243, 3629863, 4137351, 4668569, 5184310,
     5715471, 6222867, 456194, 964336, 1449642, 1949046, 2433081, 2938863, 3435225, 3957286,
     4468973, 5002179, 5516980, 6044511, 263674, 774799, 1262014, 1761970, 2261759, 2748527,
     3258991, 3760658, 4287626, 4802176, 5335504, 5847644, 87194, 584230, 1090562, 1574870,
     2074233, 2559193, 3066735, 3582538, 4089319, 4620095, 5135816, 5667387, 6175473, 409618,
     901629, 1387524, 1887049, 2370706, 2875665, 3388208, 3909482, 4420620, 4953643, 5468697,
     5996851, 216793, 728691, 1216448, 1699990, 2199572, 2685680, 3195132, 3713135, 4221776,
     4753656, 5287085, 5799716, 40030, 537848, 1044835, 1529490, 2012184, 2513430, 3003283,
     3517980, 4023772, 4553892, 5087306, 5619249, 6128006, 362967, 855686, 1358740, 1841706,
     2325125, 2829508, 3324071, 3826781, 4354604, 4887315, 5420372, 5931607, 169835, 682518,
     1170842, 1671285, 2154114, 2639772, 3148500, 3648303, 4156021, 4687374, 5220875, 5734123,
     6258634, 491396, 999060, 1484090, 1983462, 2467715, 2956944, 3470835, 3975883, 4505481,
     5020996, 5553384, 6063017, 299085, 809683, 1296542, 1796366, 2279581, 2783415, 3277236,
     3796615, 4306347, 4838781, 5354274, 5883788, 105533, 619299, 1108432, 1609285, 2108682,
     2593920, 3101941, 3600954, 4125579, 4638893, 5172396, 5686057, 6211292, 427787, 919568,
     1421995, 1921454, 2405299, 2910673, 3423766, 3928057, 4457102, 4972462, 5505131, 6015380,
     252257, 746704, 1234281, 1734388, 2217378, 2720512, 3230476, 3731617, 4258136, 4790254,
     5305866, 5835904, 58394, 572966, 1062722, 1547261, 2046614, 2531328, 3038421, 3536362,
     4059977, 4590435, 5123897, 5637936, 6163875, 381161, 890500, 1376540, 1859465, 2359690,
     2847536, 3342350, 3862803, 4391050, 4923925, 5439122, 5967674, 205351, 700553, 1205423,
     1689045, 2171910, 2674563, 3166686, 3666752, 4192332, 4723958, 5239668, 5770367, 11180,
     526563, 1016962, 1518529, 2001232, 2485597, 2992033, 3489191, 3994486, 4524258, 5057598,
     5572094, 6098955, 334460, 827662, 1331055, 1814124, 2314120, 2801422, 3312668, 3815137,
     4325072, 4857599, 5373041, 5902370, 141122, 637364, 1143054, 1643694, 2126470, 2628672,
     3120103, 3636742, 4144243, 4675464, 5191196, 5704721, 6229716, 463022, 954330, 1456454,
     1939218, 2439913, 2945715, 3442097, 3964175, 4475869, 5009070, 5523857, 6051367, 270510,
     764710, 1268826, 1752146, 2251885, 2755372, 3248704, 3767541, 4294520, 4809070, 5342387,
     5854507, 94036, 591054, 1080603, 1581683, 2064392, 2566030, 3056549, 3572079, 4096210,
     4626990, 5142704, 5674258, 6182324, 416448, 908445, 1394336, 1893866, 2377537, 2882514,
     3377853, 3898858, 4427515, 4942745, 5475575, 6003709, 223630, 735511, 1223260, 1706804,
     2206396, 2692522, 3184880, 3702608, 4228669, 4742769, 5276215, 5806582, 46874, 544674,
     1051650, 1536302, 2019003, 2520265, 3010138, 3507556, 4030662, 4543038, 5076412, 5608464,
     6134858, 352671, 862503, 1365552, 1848522, 2331953, 2836356, 3330940, 3833667, 4361498,
     4876418, 5409530, 5938468, 176674, 672385, 1177655, 1661456, 2160937, 2646612, 3155361,
     3655183, 4162913, 4694269, 5209995, 5740991, 6265481, 481167, 989066, 1490903, 1973631,
     2474549, 2963797, 3477709, 3982772, 4512376, 5027887, 5542578, 6069872, 288754, 799610,
     1303355, 1786542, 2286408, 2773365, 3284102, 3803500, 4313241, 4845674, 5361156, 5873104,
     112375, 609135, 1115246, 1599449, 2098837, 2600758, 3091739, 3607832, 4132471, 4645788,
     5179283, 5692927, 6218141, 434616, 926385, 1428807, 1911628, 2412131, 2900565, 3413393,
     3934945, 4446273, 4979354, 5512008, 6022238, 259093, 753524, 1241093, 1741203, 2224203,
     2710488, 3220207, 3738499, 4247368, 4779364, 5312750, 5842769, 65238, 579791, 1069536,
     1554073, 2053435, 2538164, 3028251, 3543238, 4049287, 4579574, 5113006, 5644809, 6170726,
     387992, 897317, 1383352, 1866281, 2366520, 2854385, 3349219, 3869690, 4380239, 4913027,
     5446001, 5974534, 194969, 707374, 1195501, 1695859, 2178734, 2681405, 3173548, 3673632,
     4199225, 4713076, 5246553, 5777234, 694, 516351, 1023777, 1508680, 2008051, 2492431,
     2998887, 3496066, 4001376, 4531153, 5046703, 5578969, 6088370, 324147, 834480, 1321168,
     1820940, 2320948, 2808269, 3319536, 3822022, 4331967, 4864493, 5379922, 5909232, 130705,
     644188, 1133112, 1633862, 2133293, 2618686, 3126963, 3643621, 4151135, 4682359, 5198083,
     5711591, 6236564, 452777, 961146, 1446595, 1946036, 2429993, 2935591, 3448970, 3953528,
     4482764, 5015961, 5530734, 6058223, 277345, 771531, 1275639, 1758960, 2242014, 2745335,
     3255570, 3756989, 4283741, 4815964, 5349269, 5861372, 100878, 597879, 1087417, 1588496,
     2071213, 2556068, 3063407, 3561629, 4085506, 4616123, 5149592, 5681129, 6189174, 423278,
     915262, 1401148, 1900684, 2384367, 2872421, 3384724, 3888243, 4416694, 4949637, 5482454,
     5993078, 230467, 742332, 1230073, 1713618, 2213221, 2699365, 3191743, 3709490, 4217913,
     4749664, 5283100, 5795865, 36406, 551501, 1041675, 1543115, 2025823, 2527101, 3016993,
     3514431, 4037553, 4549934, 5083302, 5597674, 6124290, 359503, 869321, 1355673, 1855339,
     2338783, 2843204, 3337808, 3840552, 4368393, 4883312, 5416411, 5927806, 166275, 679208,
     1167723, 1668269, 2151084, 2653453, 3145133, 3662063, 4169806, 4701164, 5216881, 5747860,
     6254979, 487995, 979067, 1481049, 1963802, 2464618, 2970650, 3467310, 3989661, 4501534,
     5034778, 5549454, 6076728, 295590, 806429, 1293460, 1793358, 2276530, 2780211, 3273807,
     3792932, 4320136, 4834781, 5368039, 5897513, 119217, 615960, 1122060, 1606263, 2088994,
     2590784, 3098598, 3597365, 4121753, 4652684, 5168397, 5699798, 6224990, 441446, 933202,
     1435620, 1918446, 2402220, 2907416, 3403029, 3924314, 4453168, 4986246, 5501189, 6029095,
     265929, 760345, 1247906, 1748017, 2231029, 2717332, 3227071, 3727964, 4254262, 4786258,
     5301884, 5832065, 72082, 569604, 1076351, 1560887, 2060256, 2545000, 3035107, 3550115,
     4056178, 4586470, 5102114, 5634030, 6160175, 394824, 887280, 1390164, 1873098, 2373350,
     2861234, 3356089, 3876576, 4387134, 4919920, 5435164, 5963888, 201808, 697250, 1202314,
     1702673, 2185559, 2688247, 3180410, 3680513, 4206119, 4719971, 5253439, 5766504, 7541,
     506131, 1013791, 1515493, 1998219, 2499266, 2988741, 3502941, 4008266, 4538049, 5053593,
     5585844, 6095225, 330981, 824415, 1327981, 1811116, 2311062, 2815116, 3309224, 3828908,
     4338862, 4871386, 5386804, 5916094, 137546, 651011, 1139926, 1624028, 2123445, 2625526,
     3116752, 3633136, 4158028, 4671484, 5204970, 5718461, 6243413, 459607, 967963, 1453408,
     1936209, 2436825, 2925476, 3438588, 3960417, 4489660, 5005064, 5537611, 6065079, 284181,
     778351, 1282452, 1765776, 2248840, 2752180, 3245292, 3763873, 4272968, 4805073, 5338410,
     5868236, 90437, 604704, 1094232, 1595309, 2078035, 2562905, 3070265, 3568506, 4092398,
     4605260, 5138704, 5670363, 6196025, 413009, 922080, 1407961, 1907501, 2391199, 2879271,
     3391595, 3895130, 4423590, 4938740, 5471625, 5999937, 220095, 732224, 1236886, 1720433,
     2220047, 2706208, 3198606, 3716372, 4224807, 4756559, 5272229, 5802732, 25930, 541298,
     1048490, 1533269, 2032644, 2517155, 3023849, 3521307, 4044443, 4556830, 5090192, 5604548,
     6131143, 349200, 859270, 1345791, 1845515, 2345612, 2833132, 3344677, 3847438, 4375289,
     4890205, 5423292, 5934668, 173115, 669069, 1174537, 1658439, 2157908, 2643461, 3151995,
     3668944, 4176699, 4708060, 5223768, 5754729, 6261827, 494824, 985883, 1471193, 1970621,
     2454693, 2960519, 3474184, 3996551, 4508430, 5041669, 5556331, 6083584, 302425, 813249,
     1300273, 1783534, 2283357, 2770167, 3280674, 3799816, 4309351, 4841675, 5374921, 5886831,
     126059, 622784, 1128874, 1613076, 2095816, 2597623, 3088403, 3604243, 4111043, 4641815,
     5175285, 5706669, 6214464, 448277, 940019, 1442433, 1925264, 2409052, 2914268, 3409901,
     3913691, 4442344, 4975349, 5508067, 6018473, 255574, 767166, 1254720, 1754833, 2237855,
     2724175, 3233936, 3734847, 4243501, 4775371, 5308768, 5821356, 61624, 576431, 1083166,
     1567700, 2067077, 2551837, 3041964, 3556992, 4063069, 4575614, 5109004, 5640904, 6149616,
     384538, 894098, 1380289, 1879916, 2363452, 2868083, 3362958, 3883464, 4394030, 4926814,
     5442045, 5970748, 191419, 704073, 1192388, 1692845, 2192384, 2678242, 3187273, 3687395,
     4213013, 4726867, 5260326, 5773373, 14388, 512959, 1003799, 1505643, 2005039, 2489331,
     2995596, 3509816, 4015156, 4544946, 5060484, 5592720, 6102080, 337815, 831234, 1318090,
     1817933, 2301180, 2805059, 3316092, 3818332, 4345758, 4878281, 5393687, 5922957, 144388,
     657836, 1146740, 1630842, 2130269, 2615546, 3123612, 3622660, 4147304, 4678380, 5211858,
     5725332, 6250262, 466437, 974780, 1460221, 1943028, 2443659, 2932328, 3428216, 3949778,
     4478827, 5011956, 5526797, 6054473, 291017, 785172, 1289265, 1772592, 2255667, 2759025,
     3252158, 3753330, 4279862, 4811968, 5327548, 5857541, 97281, 611530, 1101047, 1602123,
     2084857, 2569743, 3077123, 3575384, 4081701, 4612157, 5145593, 5659591, 6185483, 419840,
     912050, 1414774, 1897677, 2398030, 2886122, 3398466, 3902018, 4412775, 4945633, 5460793,
     5989299, 226934, 722108, 1226970, 1727248, 2210186, 2713051, 3205470, 3723255, 4231701,
     4763455, 5279115, 5792010, 32777, 531087, 1038510, 1540083, 2022811, 2523991, 3030706,
     3528183, 4051335, 4563727, 5097082, 5611424, 6120569, 356034, 849213, 1352604, 1835691,
     2335722, 2839981, 3334356, 3854325, 4382185, 4897099, 5430173, 5941530, 179956, 675893,
     1164601, 1665253, 2148058, 2650302, 3141776, 3658451, 4183593, 4714956, 5230655, 5761599,
     6268676, 501653, 992700, 1478007, 1977441, 2461527, 2950396, 3463794, 3985897, 4515327,
     5030773, 5563207, 6090440, 309261, 820069, 1307086, 1790350, 2290185, 2777013, 3270388,
     3789257, 4316247, 4830784, 5364067, 5893696, 132901, 629610, 1135689, 1619890, 2102639,
     2604462, 3095262, 3593785, 4117936, 4630950, 5164399, 5695910, 6221315, 438017, 946836,
     1449246, 1932083, 2415884, 2921120, 3416773, 3920579, 4449241, 4964452, 5497244, 6025331,
     245212, 757066, 1261533, 1745008, 2244682, 2731019, 3240801, 3741730, 4250396, 4782267,
     5297901, 5828223, 68469, 566237, 1073198, 1574514, 2057240, 2558675, 3048821, 3563869,
     4069961, 4582511, 5115894, 5630122, 6156469, 374244, 884054, 1387103, 1870092, 2370283,
     2858004, 3369829, 3890351, 4400926, 4933708, 5448926, 5960096, 198259, 693942, 1199203,
     1683016, 2182528, 2668244, 3177037, 3694277, 4219907, 4733763, 5267212, 5780242, 21235,
     519788, 1010615, 1512456, 1995209, 2496166, 2985457, 3499409, 4022047, 4534101, 5067376,
     5599596, 6108935, 344650, 838054, 1324904, 1824749, 2308009, 2795008, 3305788, 3825217,
     4334968, 4867387, 5400569, 5929820, 151230, 664660, 1153555, 1637657, 2137092, 2622386,
     3113410, 3629540, 4136588, 4667510, 5200976, 5732203, 6257111, 473267, 981597, 1467034,
     1949847, 2450492, 2939181, 3435089, 3956667, 4467999, 5001060, 5533675, 6061330, 280672,
     791993, 1279363, 1779408, 2262494, 2765870, 3259024, 3760214, 4286758, 4801080, 5334433,
     5864406, 86832, 601353, 1107862, 1592285, 2091679, 2576581, 3083982, 3582262, 4088593,
     4619053, 5134704, 5666464, 6174933, 409564, 918868, 1404903, 1904495, 2404862, 2892972,
     3405338, 3908906, 4419672, 4952527, 5467674, 5996160, 216554, 728931, 1217050, 1717421,
     2217012, 2703040, 3212334, 3712736, 4238596, 4770350, 5286001, 5798878, 39624, 537915,
     1045327, 1530235, 2029632, 2514050, 3020551, 3535060, 4040659, 4570624, 5103973, 5618299,
     6127424, 362868, 856033, 1359418, 1842509, 2325837, 2829916, 3341226, 3843741, 4371385,
     4903994, 5437055, 5948393, 186797, 682717, 1171416, 1672068, 2154882, 2640316, 3148637,
     3647966, 4172863, 4704080, 5237543, 5750858, 6275525, 508482, 999517, 1484820, 1984261,
     2468361, 2957250, 3470668, 3975251, 4504491, 5037666, 5570085, 6079842, 316097, 826890,
     1313900, 1797167, 2297014, 2783859, 3277254, 3796142, 4305469, 4837679, 5370951, 5883008,
     122471, 636435, 1125738, 1626705, 2109462, 2611302, 3102122, 3600663, 4124829, 4637847,
     5171289, 5685145, 6210782, 444848, 936813, 1439382, 1938902, 2422717, 2927972, 3423646,
     3927468, 4456137, 4971346, 5504124, 6014703, 252050, 746958, 1251622, 1751824, 2234817,
     2737864, 3230540, 3748614, 4257291, 4789163, 5304787, 5835090, 58004, 573064, 1063224,
     1564671, 2047406, 2548723, 3055679, 3553436, 4076853, 4589408, 5122785, 5636997, 6163323,
     381078, 890874, 1377225, 1876910, 2360389, 2864854, 3359499, 3879751, 4407823, 4922813,
     5455807, 5966958, 205100, 700766, 1206017, 1689831, 2172676, 2675087, 3166810, 3683775,
     4209164, 4740659, 5256338, 5787111, 28083, 526617, 1017432, 1519270, 2002029, 2486235,
     2992312, 3489010, 4011386, 4540998, 5074267, 5588799, 6115791, 351485, 844875, 1331718,
     1831567, 2314838, 2801855, 3312657, 3814650, 4341864, 4856496, 5389719, 5919147, 158073,
     654507, 1160370, 1644471, 2143916, 2629227, 3120270, 3636420, 4143481, 4674406, 5190093,
     5721450, 6246596, 480098, 971587, 1473848, 1956667, 2457326, 2946034, 3441962, 3963557,
     4474896, 5007953, 5522858, 6050718, 287510, 781901, 1286177, 1786224, 2269322, 2755840,
     3265890, 3767098, 4293653, 4807976, 5341318, 5853706, 93677, 591168, 1097901, 1599099,
     2081841, 2583420, 3073803, 3589141, 4095486, 4625950, 5141594, 5673338, 6181786, 416397,
     908832, 1411717, 1894671, 2394960, 2899824, 3394991, 3915794, 4426569, 4959421, 5474555,
     6003020, 223394, 735754, 1223864, 1707593, 2207153, 2709884, 3202090, 3719619, 4245491,
     4759468, 5292888, 5805747, 46471, 544744, 1052143, 1537049, 2019800, 2520887, 3010404,
     3524644, 4047551, 4577521, 5093081, 5625175, 6134279, 369703, 862853, 1366232, 1849326,
     2332666, 2836765, 3330914, 3850628, 4360591, 4893101, 5426213, 5955256, 176392, 689541,
     1178231, 1678884, 2161707, 2647158, 3155499, 3654847, 4179757, 4693207, 5226664, 5757729,
     6282374, 498249, 1006335, 1491634, 1991081, 2475196, 2964104, 3477543, 3982141, 4511388,
     5026771, 5559278, 6086700, 305762, 816813, 1320714, 1803984, 2303843, 2790706, 3284122,
     3803027, 4312365, 4826791, 5360094, 5889874, 112032, 626267, 1132554, 1616869, 2116286,
     2601333, 3108982, 3607543, 4131722, 4644744, 5178178, 5692018, 6217634, 434581, 943632,
     1429515, 1929077, 2429550, 2917871, 3430519, 3934357, 4463034, 4978240, 5511004, 6021563,
     258889, 753781, 1258437, 1741998, 2241644, 2727847, 3237405, 3755498, 4264186, 4796059,
     5311673, 5841957, 64850, 579892, 1070041, 1554827, 2054228, 2538777, 3045516, 3560314,
     4083745, 4596305, 5129675, 5643872, 6170177, 387912, 897693, 1384039, 1867087, 2367220,
     2854782, 3366370, 3869160, 4397018, 4929707, 5462689, 5973821, 211940, 707590, 1212832,
     1696647, 2179501, 2681929, 3173672, 3690657, 4198428, 4729782, 5263225, 5793980, 17593,
     533446, 1024250, 1526085, 2008850, 2493071, 2982181, 3495886, 4000733, 4530158, 5063374,
     5595676, 6105203, 341168, 851695, 1338532, 1838384, 2321668, 2808703, 3319525, 3821536,
     4331082, 4863392, 5396603, 5908468, 147651, 661333, 1150425, 1651287, 2134071, 2636068,
     3127131, 3643301, 4150375, 4663539, 5196982, 5728322, 6236073, 469848, 978405, 1463988,
     1963487, 2447410, 2952888, 3448836, 3970447, 4481793, 5014847, 5529738, 6057577, 277158,
     788723, 1276271, 1776400, 2276151, 2762686, 3272757, 3773983, 4300549, 4814872, 5348203,
     5860573, 83222, 597995, 1087933, 1589259, 2088664, 2573463, 3080662, 3578699, 4102379,
     4632848, 5148485, 5680212, 6188640, 406113, 915651, 1401843, 1901490, 2385061, 2889737,
     3401863, 3905187, 4433466, 4966315, 5481436, 6009881, 230234, 742577, 1230679, 1714409,
     2213980, 2699879, 3208954, 3709109, 4234743, 4766365, 5299774, 5812616, 53318, 551573,
     1058960, 1543864, 2026622, 2510951, 3017261, 3514237, 4036883, 4566673, 5099973, 5614384,
     6141134, 376538, 869673, 1373046, 1856144, 2339497, 2826707, 3337783, 3840052, 4367488,
     4899996, 5415367, 5944591, 183235, 696366, 1185047, 1685699, 2168532, 2653999, 3162362,
     3661729, 4169034, 4700104, 5215784, 5746984, 6271868, 505079, 996332, 1498449, 1981253,
     2482031, 2970958, 3484418, 3989032, 4500556, 5033664, 5548467, 6076096, 312599, 806729,
     1310817, 1810801, 2293968, 2797554, 3290989, 3809913, 4319261, 4833687, 5366979, 5879181,
     118877, 616091, 1122599, 1623684, 2106445, 2608173, 3115843, 3614422, 4138616, 4651641,
     5185068, 5698892, 6207095, 441414, 933603, 1436329, 1919252, 2419643, 2924724, 3420163,
     3941246, 4469932, 4985134, 5517884, 6028423, 248520, 760604, 1248522, 1748814, 2231783,
     2734692, 3227153, 3744971, 4271082, 4802955, 5318560, 5848825, 71697, 586720, 1076858,
     1561641, 2061050, 2545615, 3035362, 3549889, 4073063, 4603203, 5118786, 5650747, 6177031,
     394747, 904513, 1390853, 1873905, 2357330, 2861632, 3356049, 3876047, 4403916, 4918814,
     5451852, 5980683, 218782, 714415, 1219648, 1703463, 2186327, 2671937, 3180536, 3680164,
     4205323, 4718907, 5252350, 5783248, 24442, 523222, 1031067, 1516233, 2015672, 2499907,
     2989036, 3502761, 4007624, 4537056, 5052481, 5584875, 6112060, 330842, 841626, 1345347,
     1828561, 2328498, 2815551, 3326395, 3828422, 4337978, 4870288, 5385751, 5915334, 154495,
     651173, 1157241, 1641452, 2140896, 2642909, 3133992, 3650182, 4157269, 4670437, 5203872,
     5717566, 6242924, 459590, 968390, 1454124, 1953661, 2454244, 2942779, 3455710, 3977338,
     4488691, 5021740, 5536618, 6046958, 283997, 778624, 1283086, 1766575, 2266283, 2752662,
     3262487, 3780868, 4289783, 4821769, 5355089, 5867440, 90068, 604823, 1094750, 1596074,
     2078827, 2580302, 3070492, 3585578, 4109272, 4621990, 5155376, 5687087, 6195494, 430064,
     922471, 1408658, 1891667, 2391894, 2879658, 3391524, 3912076, 4422657, 4955421, 5488318,
     6016743, 237075, 749401, 1237495, 1721226, 2204124, 2706723, 3198718, 3715992, 4224001,
     4755486, 5288904, 5819485, 42838, 558403, 1065778, 1550679, 2033443, 2517788, 3024118,
     3521113, 4043775, 4555830, 5089082, 5621261, 6147990, 366230, 876494, 1363162, 1862963,
     2346328 >>

SunLongMicro8 ==
  << 1023695, 1525017, 2024343, 2509012, 3016050, 3513943, 4037524, 4550221, 5083683, 5597896,
     6124140, 341760, 851396, 1337611, 1837206, 2320665, 2825186, 3337153, 3840360, 4368590,
     4883688, 5416716, 5927815, 165834, 661348, 1149707, 1650154, 2132951, 2635389, 3144302,
     3644322, 4169875, 4701504, 5217244, 5747995, 6254716, 487254, 977916, 1462962, 1962313,
     2446518, 2952669, 3449497, 3972036, 4501799, 5035161, 5549701, 6076619, 295028, 805411,
     1292115, 1775230, 2275113, 2762176, 3273092, 3775237, 4302613, 4835150, 5368361, 5880012,
     118820, 615104, 1120813, 1604801, 2087524, 2589523, 3080655, 3579599, 4104172, 4635237,
     5150995, 5682341, 6207393, 440749, 932085, 1434212, 1916954, 2400855, 2906380, 3402434,
     3906666, 4435680, 4968839, 5483764, 6011558, 248220, 742457, 1246586, 1746531, 2229596,
     2716152, 3226312, 3727670, 4254388, 4768832, 5302226, 5814580, 54442, 568790, 1058361,
     1559437, 2042119, 2543711, 3034177, 3549656, 4056161, 4586770, 5102493, 5634234, 6142599,
     377068, 869348, 1372095, 1854964, 2355236, 2860160, 3355448, 3876413, 4387339, 4920300,
     5435462, 5963870, 184122, 679384, 1184289, 1684553, 2167427, 2670189, 3162494, 3680175,
     4206211, 4720315, 5253794, 5766627, 7247, 505375, 995820, 1497399, 1980082, 2481171,
     2970763, 3485139, 4008210, 4538328, 5053975, 5586074, 6095102, 330388, 823383, 1309925,
     1809624, 2292940, 2797089, 3291352, 3811225, 4339038, 4871760, 5387120, 5916113, 137134,
     650126, 1138668, 1622563, 2121981, 2607454, 3098814, 3615382, 4140456, 4654040, 5187567,
     5718615, 6243162, 458894, 966821, 1451994, 1934718, 2435476, 2924452, 3420762, 3942780,
     4472179, 4987657, 5520181, 6047532, 283632, 777357, 1281114, 1764287, 2247412, 2751023,
     3244546, 3746166, 4273103, 4787648, 5321001, 5850742, 90069, 586871, 1093004, 1577202,
     2076561, 2561624, 3069362, 3568062, 4092406, 4605565, 5121301, 5652911, 6178438, 395246,
     904137, 1406565, 1889365, 2389827, 2878209, 3390984, 3894979, 4423812, 4939120, 5471908,
     5982408, 219606, 714345, 1218852, 1702310, 2201916, 2705018, 3197817, 3716063, 4224909,
     4756910, 5272579, 5802832, 25621, 523488, 1030508, 1515172, 2014506, 2515846, 3005881,
     3520817, 4044414, 4557115, 5090571, 5604768, 6130991, 348591, 841349, 1344422, 1827382,
     2327493, 2815108, 3326816, 3847245, 4357778, 4890580, 5423594, 5934674, 172671, 668169,
     1156519, 1656966, 2139773, 2625392, 3134067, 3651201, 4159131, 4690620, 5224129, 5754861,
     6261561, 494080, 984730, 1469773, 1969131, 2453351, 2942531, 3456369, 3978924, 4490952,
     5024263, 5556575, 6083472, 301860, 812229, 1298926, 1782044, 2281939, 2769020, 3262789,
     3782121, 4291822, 4824253, 5357509, 5886873, 108400, 621926, 1127625, 1611613, 2094345,
     2596360, 3087513, 3586476, 4111063, 4624363, 5157882, 5689210, 6196871, 430501, 938900,
     1424352, 1923771, 2407686, 2913231, 3409304, 3913553, 4442574, 4957939, 5490640, 6000939,
     237869, 749276, 1236681, 1736706, 2236421, 2722995, 3233175, 3734552, 4261281, 4775725,
     5291360, 5821444, 43987, 558608, 1048395, 1549597, 2048939, 2533749, 3041033, 3556532,
     4063051, 4593664, 5109380, 5641104, 6149449, 366786, 876165, 1362221, 1861780, 2345334,
     2850068, 3362317, 3865797, 4394233, 4927191, 5442340, 5970727, 190959, 686205, 1191101,
     1674725, 2174250, 2660179, 3169355, 3669657, 4195454, 4727208, 5260678, 5773493, 14091,
     512201, 1002634, 1504211, 1986900, 2471230, 2977616, 3474723, 3997534, 4527474, 5060864,
     5592946, 6101954, 337219, 830200, 1316736, 1816439, 2299767, 2787025, 3298218, 3800641,
     4328237, 4860862, 5394000, 5905449, 143973, 656947, 1145480, 1629375, 2128803, 2614293,
     3105673, 3622260, 4129725, 4660934, 5194453, 5707869, 6232657, 465721, 956820, 1458805,
     1941535, 2442308, 2931303, 3427634, 3949667, 4461340, 4994547, 5509367, 6036929, 273299,
     784176, 1271218, 1771102, 2254237, 2757867, 3251411, 3753048, 4279996, 4794541, 5327883,
     5840049, 79632, 593695, 1083050, 1584014, 2083382, 2568461, 3076219, 3574939, 4099297,
     4612460, 5128188, 5659781, 6167899, 402075, 894110, 1396698, 1896182, 2379916, 2885059,
     3380620, 3901866, 4430707, 4946011, 5478785, 5989265, 209239, 721165, 1208938, 1709123,
     2192052, 2694995, 3204679, 3705528, 4231802, 4763804, 5279462, 5809697, 32465, 530313,
     1037322, 1521984, 2004670, 2505896, 3012735, 3510384, 4033723, 4564010, 5097459, 5611640,
     6137842, 355422, 848166, 1351233, 1834197, 2317600, 2821955, 3316487, 3836645, 4364672,
     4897472, 5412754, 5941533, 179509, 674990, 1163331, 1663779, 2146596, 2632231, 3140927,
     3640700, 4166023, 4697514, 5213249, 5744128, 6268407, 500906, 991545, 1476584, 1975949,
     2460183, 2949383, 3463242, 3968263, 4497847, 5013365, 5545772, 6072885, 308693, 802161,
     1305738, 1788858, 2288766, 2775866, 3269655, 3789004, 4298716, 4831146, 5346653, 5876194,
     115240, 611768, 1117682, 1618426, 2101166, 2603199, 3094371, 3593353, 4117954, 4631258,
     5164768, 5678452, 6203719, 420245, 928886, 1431163, 1913943, 2414517, 2903116, 3416176,
     3920440, 4449469, 4964830, 5497517, 6007795, 244705, 739179, 1243493, 1726881, 2226550,
     2729838, 3222898, 3741434, 4250507, 4782619, 5298243, 5828308, 50830, 565433, 1055209,
     1556409, 2039100, 2540584, 3030855, 3546082, 4069941, 4582800, 5116268, 5647976, 6156300,
     373617, 882981, 1369033, 1851955, 2352163, 2839982, 3351971, 3872683, 4401128, 4916292,
     5449218, 5977585, 197797, 693026, 1197913, 1681538, 2164392, 2667020, 3159112, 3676537,
     4202347, 4716323, 5249804, 5780359, 20936, 519027, 1009448, 1511022, 1993719, 2478064,
     2984470, 3481597, 4004423, 4516623, 5049968, 5582154, 6108806, 326913, 837018, 1323547,
     1823255, 2306595, 2793871, 3305085, 3807525, 4335131, 4849965, 5383152, 5912309, 133563,
     646806, 1152293, 1636188, 2135626, 2621132, 3112532, 3629139, 4136617, 4667828, 5183569,
     5714737, 6222144, 455483, 963635, 1448948, 1948353, 2449141, 2938155, 3434505, 3956555,
     4468235, 5001438, 5516243, 6043784, 262958, 774094, 1278029, 1761277, 2261064, 2747824,
     3258276, 3759931, 4286889, 4801435, 5334765, 5846912, 86474, 583522, 1089863, 1574176,
     2073538, 2558493, 3066025, 3581816, 4088586, 4619354, 5135076, 5666652, 6174749, 408905,
     900927, 1386829, 1886356, 2386746, 2874958, 3387490, 3908752, 4419881, 4952902, 5467959,
     5996123, 216076, 727985, 1215751, 1699296, 2198876, 2684978, 3194419, 3712409, 4221040,
     4752915, 5286346, 5798984, 39309, 537139, 1044136, 1528796, 2011490, 2512730, 3002574,
     3517259, 4023040, 4553152, 5086565, 5618513, 6127280, 362253, 854983, 1358045, 1841013,
     2324428, 2828803, 3323355, 3843530, 4353866, 4886574, 5419634, 5948393, 169117, 681812,
     1170144, 1670592, 2153419, 2639071, 3147787, 3647579, 4172916, 4686634, 5220135, 5733389,
     6257911, 490685, 998359, 1483396, 1982768, 2467017, 2956236, 3470115, 3975152, 4504742,
     5020255, 5552647, 6062290, 298370, 808980, 1295846, 1795673, 2278884, 2782711, 3276521,
     3795888, 4305610, 4838039, 5353535, 5883057, 104813, 618591, 1107734, 1608591, 2107988,
     2593219, 3101230, 3600231, 4124845, 4638153, 5171655, 5685322, 6210568, 427075, 935702,
     1421300, 1920761, 2404602, 2909967, 3423047, 3927327, 4456364, 4971721, 5504394, 6014652,
     251540, 745999, 1233584, 1733695, 2216682, 2719809, 3229762, 3730891, 4257400, 4789512,
     5305127, 5835172, 57673, 572257, 1062023, 1546567, 2045920, 2530628, 3037711, 3535641,
     4059244, 4589695, 5123156, 5637201, 6163150, 380448, 889798, 1375844, 1858771, 2358993,
     2846831, 3358840, 3862075, 4390312, 4923184, 5456097, 5966945, 204634, 699847, 1204726,
     1688351, 2171215, 2673861, 3165973, 3666027, 4191597, 4723218, 5238928, 5769634, 10458,
     525853, 1016263, 1517835, 2000538, 2484898, 2991324, 3488471, 3993755, 4523519, 5056857,
     5571358, 6098228, 333746, 826958, 1330359, 1830070, 2313423, 2800718, 3311952, 3814409,
     4342025, 4856858, 5390033, 5901639, 140403, 636657, 1142356, 1643001, 2125775, 2627971,
     3119391, 3636018, 4143509, 4674723, 5190456, 5721606, 6228992, 462311, 953629, 1455760,
     1938524, 2439215, 2945007, 3441378, 3963444, 4475130, 5008329, 5523120, 6050640, 269794,
     764006, 1268130, 1751452, 2251189, 2754668, 3247990, 3766815, 4293783, 4808329, 5341647,
     5853776, 93316, 590346, 1079904, 1580989, 2063698, 2565330, 3055839, 3571357, 4095477,
     4626250, 5141963, 5673523, 6181599, 415735, 907743, 1393641, 1893173, 2376839, 2881808,
     3377136, 3898129, 4426776, 4942003, 5474837, 6002980, 222913, 734806, 1222563, 1706110,
     2205701, 2691820, 3184167, 3701883, 4227933, 4742028, 5275476, 5805850, 46153, 543965,
     1050950, 1535608, 2018309, 2519566, 3009429, 3506835, 4029930, 4560048, 5075671, 5607728,
     6134132, 369085, 861801, 1364857, 1847829, 2331257, 2835650, 3330223, 3832939, 4360761,
     4875677, 5408791, 5937738, 175956, 671679, 1176957, 1660762, 2160242, 2645911, 3154649,
     3654459, 4162179, 4693528, 5209254, 5740258, 6264758, 480456, 988366, 1490208, 1972937,
     2473850, 2963089, 3476989, 3982041, 4511637, 5027146, 5541841, 6069145, 288039, 798906,
     1302659, 1785849, 2285712, 2789557, 3283387, 3802773, 4312504, 4844933, 5360417, 5889919,
     111655, 608427, 1114547, 1598755, 2098142, 2600058, 3091028, 3607109, 4131737, 4645048,
     5178542, 5692193, 6217417, 433904, 925683, 1428112, 1910934, 2411433, 2899859, 3412675,
     3934215, 4445534, 4978613, 5511271, 6021509, 258376, 752819, 1240396, 1740509, 2223508,
     2709786, 3219493, 3737773, 4246633, 4778623, 5312010, 5842037, 64517, 579083, 1068837,
     1553380, 2052741, 2537464, 3027542, 3542517, 4048555, 4578835, 5112265, 5644074, 6170001,
     387279, 896615, 1382657, 1865588, 2365823, 2853679, 3348502, 3868961, 4379501, 4912286,
     5445263, 5973804, 194252, 706669, 1211538, 1695165, 2178039, 2680703, 3172835, 3672908,
     4198490, 4712335, 5245813, 5776501, 6283157, 515641, 1023078, 1507986, 2007357, 2491732,
     2998179, 3495345, 4000644, 4530414, 5045962, 5578233, 6087643, 323432, 833777, 1320472,
     1820246, 2320252, 2807565, 3318820, 3821295, 4348920, 4863751, 5379183, 5908501, 129985,
     643480, 1132413, 1633168, 2132598, 2617985, 3126251, 3642898, 4150401, 4681619, 5197343,
     5710856, 6235841, 452065, 960445, 1445900, 1945343, 2429295, 2934884, 3448251, 3952797,
     4482025, 5015220, 5529996, 6057496, 276629, 770826, 1274942, 1758267, 2258015, 2744632,
     3254855, 3756263, 4283004, 4815223, 5348530, 5860640, 100158, 597171, 1086718, 1587802,
     2070519, 2555368, 3062697, 3560907, 4084773, 4615383, 5148852, 5680394, 6188450, 422566,
     914560, 1400453, 1899990, 2383670, 2871715, 3384006, 3887513, 4415956, 4948896, 5481716,
     5992349, 229750, 741627, 1229376, 1712925, 2212526, 2698663, 3191030, 3708765, 4217178,
     4748923, 5282360, 5795132, 35685, 550791, 1040975, 1542421, 2025129, 2526402, 3016284,
     3513711, 4036821, 4549195, 5082561, 5596938, 6123564, 358789, 868619, 1354978, 1854645,
     2338086, 2842499, 3337092, 3839824, 4367656, 4882570, 5415672, 5927076, 165556, 678501,
     1167025, 1667576, 2150390, 2652752, 3161510, 3661339, 4169071, 4700424, 5216141, 5747126,
     6254256, 487284, 978366, 1480355, 1979756, 2463920, 2969942, 3466590, 3988930, 4518533,
     5034036, 5548717, 6076001, 294874, 805725, 1292764, 1792665, 2275834, 2779507, 3290254,
     3792205, 4319399, 4851827, 5367300, 5896782, 118497, 615252, 1121361, 1605569, 2088300,
     2590084, 3097887, 3596642, 4121020, 4651943, 5167657, 5699064, 6224266, 440734, 932500,
     1434925, 1917752, 2401522, 2906710, 3402312, 3923584, 4452430, 4985504, 5500451, 6028367,
     265213, 759640, 1247209, 1747324, 2230333, 2716629, 3226357, 3727238, 4253527, 4785517,
     5301144, 5831333, 71361, 568895, 1075652, 1560193, 2059562, 2544301, 3034398, 3549393,
     4055445, 4585730, 5101373, 5633295, 6159450, 394111, 886577, 1389469, 1872405, 2372653,
     2860528, 3355372, 3875848, 4386397, 4919179, 5434426, 5963158, 201091, 696544, 1201617,
     1701980, 2184864, 2687545, 3179697, 3679789, 4205384, 4719231, 5252699, 5765771, 6818,
     505420, 1013091, 1514799, 1997525, 2498567, 2988033, 3502220, 4007534, 4537310, 5052852,
     5585108, 6094498, 330266, 823711, 1327285, 1810423, 2310366, 2814412, 3308508, 3828180,
     4338125, 4870645, 5386065, 5915364, 136827, 650304, 1139227, 1639982, 2122751, 2624825,
     3116041, 3632413, 4157294, 4670744, 5204230, 5735345, 6242689, 458895, 967262, 1452713,
     1935515, 2436127, 2924769, 3437870, 3959686, 4488921, 5004323, 5536874, 6064352, 283465,
     777646, 1281755, 1765082, 2248144, 2751476, 3244578, 3763147, 4289899, 4804332, 5337671,
     5867504, 107001, 603996, 1093533, 1594615, 2077340, 2562206, 3069555, 3567784, 4091665,
     4604520, 5137963, 5669628, 6195300, 412296, 921378, 1407266, 1906808, 2390501, 2878565,
     3390877, 3894401, 4422852, 4937999, 5470887, 5999208, 219378, 731518, 1236189, 1719739,
     2219352, 2705505, 3197893, 3715647, 4224072, 4755818, 5271489, 5801999, 25208, 540588,
     1047791, 1532575, 2031950, 2516456, 3023140, 3520586, 4043711, 4556091, 5089451, 5603812,
     6130417, 348485, 858567, 1345095, 1844821, 2344916, 2832427, 3343961, 3846710, 4374552,
     4889464, 5422553, 5933938, 172397, 668362, 1173839, 1657745, 2157213, 2642760, 3151283,
     3668220, 4175965, 4707319, 5223028, 5753996, 6261104, 494113, 985183, 1470499, 1969927,
     2453995, 2959812, 3473464, 3995820, 4507691, 5040928, 5555594, 6082856, 301710, 812545,
     1299577, 1782841, 2282661, 2769463, 3279959, 3799089, 4308615, 4840934, 5374182, 5886100,
     125339, 622076, 1128176, 1612383, 2095122, 2596923, 3087693, 3603521, 4110310, 4641075,
     5174545, 5705935, 6213740, 447565, 939317, 1441738, 1924570, 2408354, 2913561, 3409183,
     3930472, 4441606, 4974608, 5507330, 6035225, 254858, 766461, 1254023, 1754139, 2237160,
     2723473, 3233222, 3734121, 4242766, 4774630, 5308029, 5820623, 60903, 575722, 1082467,
     1567006, 2066383, 2551138, 3041255, 3556270, 4062337, 4592627, 5108263, 5640169, 6148890,
     383824, 893395, 1379594, 1879222, 2362755, 2867378, 3362242, 3882735, 4393292, 4926073,
     5441306, 5970019, 190701, 703367, 1191691, 1692152, 2191689, 2677541, 3186560, 3686670,
     4212278, 4726126, 5259585, 5772639, 13666, 512249, 1003098, 1504949, 2004345, 2488632,
     2994887, 3509096, 4014424, 4544206, 5059743, 5591984, 6101353, 337101, 830531, 1317394,
     1817239, 2300484, 2804354, 3315376, 3817604, 4345021, 4877539, 5392948, 5922226, 143669,
     657128, 1146042, 1630148, 2129574, 2614846, 3122901, 3621938, 4146571, 4677640, 5211118,
     5724597, 6249539, 465725, 974079, 1459526, 1942334, 2442961, 2931621, 3427498, 3949048,
     4478089, 5011215, 5526060, 6053745, 290302, 784467, 1288569, 1771898, 2254971, 2758321,
     3251443, 3752604, 4279126, 4811227, 5326809, 5856809, 96560, 610821, 1100348, 1601429,
     2084163, 2569043, 3076413, 3574662, 4080969, 4611417, 5144852, 5658856, 6184758, 419128,
     911347, 1414079, 1896983, 2397333, 2885416, 3397748, 3901288, 4412038, 4944892, 5477767,
     5988570, 226216, 721402, 1226273, 1726555, 2209490, 2712349, 3204757, 3722529, 4230966,
     4762714, 5278375, 5791277, 32055, 547416, 1037810, 1539389, 2022117, 2523292, 3029997,
     3527462, 4050602, 4562987, 5096341, 5610687, 6137271, 355320, 848509, 1351908, 1834998,
     2335026, 2839276, 3333640, 3853597, 4381447, 4896358, 5429435, 5940800, 179237, 675186,
     1163903, 1664560, 2147363, 2649601, 3141064, 3657727, 4182858, 4714215, 5229915, 5760865,
     6267953, 500942, 991999, 1477312, 1976747, 2460829, 2966666, 3463075, 3985166, 4514588,
     5030032, 5562471, 6089712, 308545, 819366, 1306390, 1789657, 2289489, 2776309, 3269673,
     3788530, 4315510, 4830043, 5363327, 5892964, 132182, 628902, 1134991, 1619197, 2101944,
     2603762, 3094552, 3593062, 4117202, 4630210, 5163659, 5695175, 6220591, 454396, 946135,
     1448551, 1931389, 2415186, 2920413, 3416055, 3919849, 4448502, 4963711, 5496507, 6024603,
     261696, 756360, 1260837, 1744314, 2243986, 2730317, 3240087, 3741005, 4249660, 4781526,
     5297161, 5827490, 67748, 565527, 1072498, 1573820, 2056546, 2557975, 3048112, 3563148,
     4069228, 4599523, 5115153, 5629386, 6155744, 373530, 883352, 1386407, 1869398, 2369586,
     2857299, 3369112, 3889622, 4400188, 4932966, 5448187, 5959366, 197541, 693236, 1198505,
     1682322, 2181833, 2684383, 3176325, 3693552, 4219172, 4733022, 5266472, 5779508, 20513,
     519078, 1009915, 1511762, 1994515, 2495467, 2984749, 3498689, 4021315, 4533362, 5066635,
     5598859, 6108209, 343936, 837351, 1324208, 1824056, 2307313, 2794304, 3305073, 3824490,
     4334232, 4866646, 5399830, 5929089, 150511, 663953, 1152857, 1636963, 2136398, 2621686,
     3112699, 3628817, 4135854, 4666769, 5200236, 5731468, 6256388, 472555, 980896, 1466340,
     1949153, 2449794, 2938474, 3434371, 3955937, 4467261, 5000319, 5532938, 6060603, 279956,
     791288, 1278666, 1778714, 2261799, 2765167, 3258309, 3759488, 4286022, 4800339, 5333694,
     5863675, 86111, 600644, 1107163, 1591591, 2090985, 2575882, 3083272, 3581540, 4087861,
     4618313, 5133963, 5665729, 6174208, 408851, 918166, 1404208, 1903802, 2404165, 2892267,
     3404620, 3908177, 4418934, 4951786, 5466936, 5995431, 215836, 728225, 1216352, 1716728,
     2216316, 2702338, 3211621, 3729412, 4237861, 4769610, 5285261, 5798145, 38902, 537205,
     1044627, 1529541, 2028938, 2513351, 3019842, 3534339, 4039927, 4569884, 5103232, 5617563,
     6144126, 362154, 855329, 1358722, 1841815, 2325140, 2829211, 3340510, 3843013, 4370648,
     4903253, 5436316, 5947663, 186078, 682010, 1170718, 1671375, 2154188, 2639615, 3147926,
     3647243, 4172129, 4703340, 5236803, 5767735, 6274802, 507771, 998817, 1484126, 1983567,
     2467663, 2956542, 3469949, 3974521, 4503752, 5036924, 5569348, 6079115, 315382, 826186,
     1313204, 1796473, 2296318, 2783156, 3276540, 3795415, 4304733, 4836938, 5370211, 5882277,
     121751, 635727, 1125040, 1626011, 2108768, 2610601, 3101412, 3599941, 4124095, 4637107,
     5170548, 5684410, 6210058, 444136, 952953, 1438687, 1938208, 2422019, 2927266, 3422928,
     3926738, 4455399, 4970605, 5503386, 6013974, 251333, 763183, 1250925, 1751130, 2234122,
     2737161, 3229826, 3747888, 4256555, 4788422, 5304047, 5834357, 57282, 572355, 1062525,
     1563977, 2046712, 2548024, 3054970, 3552715, 4076120, 4606420, 5122044, 5636261, 6162597,
     380364, 890171, 1376529, 1876216, 2359692, 2864149, 3358783, 3879023, 4407085, 4939860,
     5455069, 5983741, 204382, 700060, 1205320, 1689138, 2171981, 2674385, 3166098, 3683051,
     4208429, 4739919, 5255597, 5786378, 27361, 525907, 1016732, 1518576, 2001336, 2485537,
     2991604, 3488291, 4010655, 4540259, 5073526, 5588062, 6115065, 350771, 844171, 1331022,
     1830873, 2314142, 2801152, 3311941, 3813923, 4341128, 4873541, 5388980, 5918417, 157353,
     653799, 1159672, 1643778, 2143222, 2628526, 3119559, 3635697, 4142748, 4673666, 5189352,
     5720716, 6245872, 479386, 970886, 1473154, 1955973, 2456628, 2945327, 3441244, 3962827,
     4474158, 5007212, 5522121, 6049990, 286794, 781196, 1285480, 1785531, 2268627, 2772013,
     3265176, 3766372, 4292917, 4807235, 5340579, 5852974, 92957, 590459, 1097201, 1598405,
     2081147, 2582720, 3073093, 3588419, 4094753, 4625211, 5140853, 5672603, 6181061, 415684,
     908130, 1411022, 1893978, 2394262, 2899118, 3394273, 3915065, 4425831, 4958680, 5473817,
     6002291, 222676, 735048, 1223167, 1706900, 2206458, 2709182, 3201377, 3718894, 4244756,
     4758728, 5292148, 5805014, 45749, 544034, 1051443, 1536355, 2019106, 2520188, 3009696,
     3523923, 4046819, 4576781, 5092340, 5624439, 6133552, 368989, 862149, 1365536, 1848633,
     2331970, 2836060, 3330198, 3849900, 4377544, 4892360, 5425474, 5954525, 175674, 688834,
     1177533, 1678190, 2161012, 2646457, 3154788, 3654124, 4179023, 4692467, 5225924, 5756995,
     6281651, 497538, 1005634, 1490940, 1990387, 2474498, 2963396, 3476824, 3981411, 4510649,
     5026030, 5558541, 6085972, 305046, 816109, 1320018, 1803290, 2303147, 2790003, 3283407,
     3802300, 4311629, 4843834, 5359355, 5889142, 111311, 625558, 1131855, 1616175, 2115591,
     2600633, 3108272, 3606820, 4130989, 4644004, 5177438, 5691283, 6216910, 433869, 942930,
     1428819, 1928383, 2428852, 2917165, 3429800, 3933627, 4462296, 4977499, 5510266, 6020834,
     258172, 753076, 1257740, 1741304, 2240949, 2727144, 3236692, 3754772, 4263451, 4795318,
     5310933, 5841225, 64129, 579183, 1069341, 1554132, 2053534, 2538078, 3044807, 3559592,
     4083013, 4595566, 5128935, 5643136, 6169451, 387198, 896991, 1383343, 1866393, 2366523,
     2854077, 3365653, 3885911, 4396281, 4928966, 5461950, 5973091, 211222, 706884, 1212135,
     1695953, 2178806, 2681228, 3172960, 3689933, 4197694, 4729041, 5262485, 5793247, 16871,
     532736, 1023549, 1525390, 2008157, 2492372, 2998460, 3495166, 4000002, 4529419, 5062633,
     5594939, 6104476, 340453, 850992, 1337836, 1837691, 2320972, 2807999, 3318810, 3820809,
     4330345, 4862651, 5395864, 5907737, 146932, 660625, 1166487, 1650593, 2133377, 2635367,
     3126420, 3642578, 4149641, 4662799, 5196242, 5727588, 6235348, 469136, 977704, 1463293,
     1962793, 2446712, 2952181, 3448117, 3969717, 4481055, 5014105, 5529000, 6056849, 276441,
     788018, 1275574, 1775707, 2275455, 2761983, 3272043, 3773257, 4299813, 4814131, 5347464,
     5859841, 99802, 597286, 1087234, 1588565, 2087970, 2572763, 3079952, 3595298, 4101646,
     4632108, 5147744, 5679477, 6187915, 422517, 914949, 1401148, 1900796, 2384364, 2889032,
     3401145, 3904458, 4432728, 4965574, 5480698, 6009152, 229517, 741871, 1229982, 1713716,
     2213284, 2699178, 3208241, 3708385, 4234008, 4765624, 5299035, 5811883, 52596, 550863,
     1058260, 1543170, 2025928, 2527024, 3016552, 3513517, 4036152, 4565934, 5099232, 5613648,
     6140408, 375824, 868970, 1372350, 1855451, 2338800, 2826003, 3337067, 3839325, 4366751,
     4899255, 5414629, 5943861, 182516, 695659, 1184349, 1685006, 2167838, 2653298, 3161650,
     3661005, 4168300, 4699364, 5232813, 5746250, 6271145, 504368, 995631, 1497754, 1980560,
     2481333, 2970251, 3483699, 3988302, 4499818, 5032923, 5547730, 6075368, 311883, 806024,
     1310121, 1810108, 2293272, 2796850, 3290275, 3809186, 4318525, 4850730, 5366240, 5878450,
     118156, 632385, 1121900, 1622990, 2105751, 2607473, 3115132, 3613700, 4137882, 4650901,
     5184328, 5698157, 6206370, 440701, 932901, 1435634, 1918559, 2418945, 2924017, 3419445,
     3940517, 4469194, 4984393, 5517147, 6027695, 265012, 759899, 1247825, 1748121, 2231088,
     2733989, 3226439, 3744246, 4270347, 4802215, 5317820, 5848093, 70976, 586011, 1076158,
     1560947, 2060356, 2544915, 3034653, 3549168, 4072331, 4602463, 5118045, 5650012, 6176306,
     394033, 903811, 1390158, 1873212, 2373355, 2860928, 3355333, 3875319, 4403178, 4918073,
     5451113, 5979953, 218064, 713708, 1218950, 1702769, 2185632, 2671236, 3179824, 3679441,
     4204589, 4718167, 5251609, 5782515, 23720, 522512, 1030367, 1532205, 2014978, 2499208,
     3005316, 3502042, 4006893, 4536317, 5051740, 5584138, 6111333, 347289, 840922, 1344651,
     1827868, 2327802, 2814847, 3325679, 3827695, 4337242, 4869547, 5385012, 5914603, 153776,
     650465, 1156543, 1657409, 2140201, 2642208, 3133282, 3649459, 4156535, 4669697, 5203131,
     5716831, 6242200, 458878, 967689, 1470107, 1952967, 2453547, 2942072, 3454992, 3976607,
     4487953, 5020999, 5535880, 6046230, 283280, 777919, 1282389, 1765882, 2265587, 2751959,
     3261773, 3780142, 4306709, 4821028, 5354350, 5866708, 106648, 604114, 1094051, 1595380,
     2078133, 2579602, 3069782, 3584856, 4108539, 4621251, 5154635, 5686352, 6194769, 429351,
     921769, 1407962, 1907616, 2391197, 2878953, 3390808, 3911347, 4421920, 4954680, 5487580,
     6016014, 236358, 748695, 1236798, 1720532, 2220111, 2706021, 3198006, 3715268, 4223266,
     4754746, 5288164, 5818752, 59444, 557693, 1065078, 1549985, 2032750, 2533862, 3023409,
     3520393, 4043044, 4555091, 5088341, 5620525, 6147264, 365515, 875791, 1362466, 1862270,
     2345631 >>

\* ------------------------------------------------ lunation arithmetic

\* JDN of the lunation epoch used by lines 143, 155, 189 and 240.
EpochJdn == 2415021

\* The whole day on or after  j * 29.530588853 + cNano * 10^-9  days,
\* exactly: 0.530588853 = 53058 * 10^-5 + 8853 * 10^-9.
LunationDay(j, cNano) ==
  29 * j + CeilDiv(j * 53058 + CeilDiv(j * 8853 + cNano, 10000), 100000)

\* floor((n - cNano * 10^-9) / 29.530588853) for an integer n.
FloorLunations(n, cNano) ==
  LET e == (n * 100) \div 2953
  IN  CHOOSE k \in (e - 1)..(e + 1) :
        LunationDay(k, cNano) <= n /\ LunationDay(k + 1, cNano) > n

\* int((day_number - 2415021.076998695) / 29.530588853), line 189.
LunationOfDay(day_number) ==
  LET n == day_number - EpochJdn
  IN  IF n >= 1 THEN FloorLunations(n, 76998695)
      ELSE -FloorLunations(-n, -76998695)

\* int(off / 29.530588853), line 144.
LunationOfOffset(off) ==
  IF off >= 0 THEN FloorLunations(off, 0) ELSE -FloorLunations(-off, 0)

\* int(0.5 + (a11 - 2415021.076998695) / 29.530588853), lines 155 and 240:
\* with n = a11 - 2415021 the argument of int is
\* (2n - 0.15399739 + 29.530588853) / (2 * 29.530588853), negative iff n < -14.
LunationOfAnchor(a11) ==
  LET n == a11 - EpochJdn
      m == -n
      e == (n * 100) \div 2953
      f == (m * 100) \div 2953
  IN  IF n >= -14
      THEN CHOOSE k \in e..(e + 1) :
             /\ LunationDay(2 * k - 1, 153997390) <= 2 * n
             /\ LunationDay(2 * k + 1, 153997390) > 2 * n
      ELSE -(CHOOSE k \in (f - 1)..f :
               /\ LunationDay(2 * k + 1, -153997390) <= 2 * m
               /\ LunationDay(2 * k + 3, -153997390) > 2 * m)

\* ----------------------------------------------------------- astronomy

\* int(floor(JdNew + 0.5 + tz_offset_hours / 24.0)), line 113.
_new_moon_day(k, tz_offset_hours) ==
  (NewMoonHour[k + 21] + tz_offset_hours) \div 24

\* _sun_longitude(_new_moon_day(k, tz), tz) in micro-radians: the source
\* evaluates the longitude at new-moon days only (lines 146, 158, 162).
SunLongitudeAtNewMoon(k, tz_offset_hours) ==
  CASE tz_offset_hours = 0 -> SunLongMicro0[k + 21]
    [] tz_offset_hours = 7 -> SunLongMicro7[k + 21]
    [] tz_offset_hours = 8 -> SunLongMicro8[k + 21]

\* sun_long >= 3.141592653589793, line 147 (no tabulated value lies in
\* [3.141592, 3.141593)).
PastPi(sun_long) == sun_long >= 3141593

\* ----------------------------------------------------- calendar helpers

_lunar_month11(yy, tz_offset_hours) ==
  LET off == _jd_from_date(31, 12, yy) - EpochJdn
      k == LunationOfOffset(off)
      nm == _new_moon_day(k, tz_offset_hours)
      sun_long == SunLongitudeAtNewMoon(k, tz_offset_hours)
  IN  IF PastPi(sun_long) THEN _new_moon_day(k - 1, tz_offset_hours) ELSE nm

\* The bound of the scan, line 163.
ScanLimit == 15

\* The scan with the test of line 163 inverted: it stops at the first
\* longitude that differs from the one before.
RECURSIVE LeapScanInverted(_, _)
LeapScanInverted(arcs, i) ==
  LET last == arcs[i]
      j == i + 1
      arc == arcs[j]
  IN  IF arc # last \/ j >= ScanLimit THEN j - 1 ELSE LeapScanInverted(arcs, j)

\* The loop of lines 159-164 entered with i and arc = arcs[i]; arcs[i] is
\* the sun longitude at new moon k + i.
RECURSIVE LeapScan(_, _)
LeapScan(arcs, i) ==
  LET last == arcs[i]
      j == i + 1
      arc == arcs[j]
  IN  IF arc = last \/ j >= ScanLimit THEN j - 1 ELSE LeapScan(arcs, j)

_leap_month_offset(a11, tz_offset_hours) ==
  LET k == LunationOfAnchor(a11)
  IN  LeapScan([i \in 1..ScanLimit |-> SunLongitudeAtNewMoon(k + i, tz_offset_hours)], 1)

\* --------------------------------------------------- public conversions

\* Days between two month-11 anchors above which the year has 13 lunations,
\* lines 207 and 245.
YearDays == 365

\* Returns the dict of lines 219-224 and, for the properties, the locals
\* a11, b11, month_start and diff at the return.
solar_to_lunar(dd, mm, yy, tz_str) ==
  LET tz_h == _tz_offset_hours(tz_str, <<dd, mm, yy>>)
      day_number == _jd_from_date(dd, mm, yy)
      k == LunationOfDay(day_number)
      ms1 == _new_moon_day(k + 1, tz_h)
      month_start == IF ms1 > day_number THEN _new_moon_day(k, tz_h) ELSE ms1
      a11_0 == _lunar_month11(yy, tz_h)
      b11 == _lunar_month11(yy + 1, tz_h)
      back == a11_0 >= month_start
      a11 == IF back THEN _lunar_month11(yy - 1, tz_h) ELSE a11_0
      lunar_year_0 == IF back THEN yy
                      ELSE IF month_start >= b11 THEN yy + 1 ELSE yy
      lunar_day == day_number - month_start + 1
      diff == TruncDiv(month_start - a11, 29)
      leap_year == b11 - a11 > YearDays
      leap_month_diff == _leap_month_offset(a11, tz_h)
      shifted == leap_year /\ diff >= leap_month_diff
      lunar_month_0 == IF shifted THEN diff + 10 ELSE diff + 11
      is_leap == shifted /\ diff = leap_month_diff
      lunar_month == IF lunar_month_0 > 12 THEN lunar_month_0 - 12 ELSE lunar_month_0
      lunar_year == IF lunar_month >= 11 /\ diff < 4 THEN lunar_year_0 - 1 ELSE lunar_year_0
  IN  [lunar_year |-> lunar_year, lunar_month |-> lunar_month,
       lunar_day |-> lunar_day, is_leap |-> is_leap,
       a11 |-> a11, b11 |-> b11, month_start |-> month_start, diff |-> diff]

\* raised: the ValueError of line 250; else date is the returned date.  The
\* locals a11, b11, k and off at the exit are kept for the properties.
lunar_to_solar(lunar_year, lunar_month, lunar_day, is_leap, tz_str) ==
  LET mon == IF lunar_month < 1 THEN 1 ELSE IF lunar_month > 12 THEN 12 ELSE lunar_month
      tz_h == _tz_offset_hours(tz_str, <<15, mon, lunar_year>>)
      a11 == IF lunar_month < 11 THEN _lunar_month11(lunar_year - 1, tz_h)
             ELSE _lunar_month11(lunar_year, tz_h)
      b11 == IF lunar_month < 11 THEN _lunar_month11(lunar_year, tz_h)
             ELSE _lunar_month11(lunar_year + 1, tz_h)
      k == LunationOfAnchor(a11)
      off_0 == IF lunar_month - 11 < 0 THEN lunar_month - 11 + 12 ELSE lunar_month - 11
      leap_year == b11 - a11 > YearDays
      leap_off == _leap_month_offset(a11, tz_h)
      leap == leap_off - 1
      raised == leap_year /\ is_leap /\ off_0 # leap
      off == IF leap_year /\ (is_leap \/ off_0 >= leap_off) THEN off_0 + 1 ELSE off_0
      month_start == _new_moon_day(k + off, tz_h)
      jdn == month_start + lunar_day - 1
  IN  IF raised
      THEN [raised |-> TRUE, date |-> <<>>, a11 |-> a11, b11 |-> b11, k |-> k, off |-> off_0]
      ELSE [raised |-> FALSE, date |-> _jd_to_date(jdn), a11 |-> a11, b11 |-> b11,
            k |-> k, off |-> off]

\* ------------------------------------------------------- state machine

\* LunarReq.month and LunarReq.day are unconstrained ints (app/main.py):
\* the months and days the callers draw, out-of-domain values included.
LunarMonths == 0..13
LunarDays == {-1, 0, 1, 15, 30}

\* Longitude values (micro-radians) of a scan outside the tabulated
\* lunations.  Two values give every pattern of equal and unequal neighbours;
\* equal neighbours occur: at a11 = 10^17 the indices k + 1 and k + 2 are the
\* same double, and _leap_month_offset(10**17, 7) returns 1.
ArcValues == {1000000, 2000000}

Init ==
  /\ pc = "idle"
  /\ arg = NoValue
  /\ ret = NoValue
  /\ origin = NoValue

\* day_number = _jd_from_date(dd, mm, yy) on a valid Gregorian date.
JdFromDate ==
  /\ pc = "idle"
  /\ \E yy \in MinYear..MaxYear, mm \in 1..12 :
       \E dd \in 1..DaysInMonth(mm, yy) :
         /\ pc' = "jd"
         /\ arg' = <<dd, mm, yy>>
         /\ ret' = _jd_from_date(dd, mm, yy)
         /\ origin' = NoValue

\* _jd_to_date applied to the day number just computed.
JdToDate ==
  /\ pc = "jd"
  /\ pc' = "date"
  /\ arg' = ret
  /\ ret' = _jd_to_date(ret)
  /\ origin' = arg

\* api_solar_to_lunar / test_*: solar_to_lunar(dt, tz).
SolarToLunar ==
  /\ pc = "idle"
  /\ \E yy \in MinYear..MaxYear, mm \in 1..12, tz \in Zones :
       \E dd \in 1..DaysInMonth(mm, yy) :
         /\ pc' = "lunar"
         /\ arg' = [date |-> <<dd, mm, yy>>, tz |-> tz]
         /\ ret' = solar_to_lunar(dd, mm, yy, tz)
         /\ origin' = NoValue

\* test_roundtrip_simple: lunar_to_solar on the fields solar_to_lunar returned.
LunarToSolarBack ==
  /\ pc = "lunar"
  /\ pc' = "back"
  /\ arg' = [lunar_year |-> ret.lunar_year, lunar_month |-> ret.lunar_month,
             lunar_day |-> ret.lunar_day, is_leap |-> ret.is_leap, tz |-> arg.tz]
  /\ ret' = lunar_to_solar(ret.lunar_year, ret.lunar_month, ret.lunar_day,
                           ret.is_leap, arg.tz)
  /\ origin' = arg

\* api_lunar_to_solar: lunar_to_solar on a request's fields.
LunarToSolar ==
  /\ pc = "idle"
  /\ \E ly \in MinYear..MaxYear, lm \in LunarMonths, ld \in LunarDays,
        leap \in BOOLEAN, tz \in Zones :
       /\ pc' = "solar"
       /\ arg' = [lunar_year |-> ly, lunar_month |-> lm, lunar_day |-> ld,
                  is_leap |-> leap, tz |-> tz]
       /\ ret' = lunar_to_solar(ly, lm, ld, leap, tz)
       /\ origin' = NoValue

\* _leap_month_offset on the month-11 anchor of a year.
LeapMonthOffset ==
  /\ pc = "idle"
  /\ \E yy \in (MinYear - 1)..MaxYear, tz \in Zones :
       LET tz_h == _tz_offset_hours(tz, <<31, 12, yy>>)
           a11 == _lunar_month11(yy, tz_h)
       IN  /\ pc' = "leap"
           /\ arg' = [a11 |-> a11, tz_h |-> tz_h]
           /\ ret' = _leap_month_offset(a11, tz_h)
           /\ origin' = NoValue

\* _leap_month_offset on an anchor outside the tabulated lunations: the
\* loop runs on whatever longitudes the new moons k + 1 .. k + 15 have.
LeapScanAny ==
  /\ pc = "idle"
  /\ \E arcs \in [1..ScanLimit -> ArcValues] :
       /\ pc' = "scan"
       /\ arg' = arcs
       /\ ret' = LeapScan(arcs, 1)
       /\ origin' = NoValue

NextDayNumber == JdFromDate \/ JdToDate
NextForward == SolarToLunar \/ LunarToSolarBack
NextBackward == LunarToSolar
NextLeap == LeapMonthOffset \/ LeapScanAny
Next == NextDayNumber \/ NextForward \/ NextBackward \/ NextLeap

Spec == Init /\ [][Next]_vars
SpecDayNumber == Init /\ [][NextDayNumber]_vars
SpecForward == Init /\ [][NextForward]_vars
SpecBackward == Init /\ [][NextBackward]_vars
SpecLeap == Init /\ [][NextLeap]_vars

\* ----------------------------------------------------------- properties

\* The whole-hour offset of the call that produced the current state.
CallOffset == _tz_offset_hours(arg.tz, <<1, 1, 2000>>)

\* C1: for every valid Gregorian date (d, m, y) of the range,
\* _jd_to_date(_jd_from_date(d, m, y)) is exactly (d, m, y).
C1_JdRoundTrip == pc = "date" => ret = origin

\* C1 witness: 29 February 2000 has been converted to its day number and back.
C1_Witness == pc = "date" /\ origin = <<29, 2, 2000>> /\ arg = 2451604

\* C2: lunar_to_solar on the lunar date solar_to_lunar returned for a
\* Gregorian date, in the same zone, returns that Gregorian date.
C2_RoundTrip == pc = "back" => (~ret.raised /\ ret.date = origin.date)

\* C3: a date inside the inserted lunation is returned with is_leap = TRUE
\* and the number of the preceding regular month: 2017-08-21 at UTC+7 is
\* lunar 2017, month 6, day 30, leap (test_known_leap_month).
C3_KnownLeapMonth ==
  (pc = "lunar" /\ arg.date = <<21, 8, 2017>> /\ arg.tz = "Etc/GMT-7")
    => /\ ret.lunar_year = 2017
       /\ ret.lunar_month = 6
       /\ ret.lunar_day = 30
       /\ ret.is_leap

\* C4: lunar_to_solar with is_leap = TRUE returns a date only for the year's
\* inserted month: the year has 13 lunations and the month's offset from
\* month 11 is leap_off - 1; every other such request raises.
C4_InvalidLeapMonthRaises ==
  (pc = "solar" /\ arg.is_leap /\ arg.lunar_month \in 1..12 /\ arg.lunar_day >= 1)
    => \/ ret.raised
       \/ /\ ret.b11 - ret.a11 > YearDays
          /\ (arg.lunar_month + 1) % 12 = _leap_month_offset(ret.a11, CallOffset) - 1

\* The month-11 anchor that follows the anchor a11 of a solar_to_lunar call
\* on a date of Gregorian year yy: a11 is the anchor of yy - 1 or of yy.
NextAnchor(a11, yy, tz_h) ==
  IF a11 = _lunar_month11(yy - 1, tz_h) THEN _lunar_month11(yy, tz_h)
  ELSE _lunar_month11(yy + 1, tz_h)

\* The month numbers solar_to_lunar returns with is_leap = TRUE on the days
\* from from_jd up to, not including, to_jd.
FlaggedMonths(from_jd, to_jd, tz) ==
  { solar_to_lunar(_jd_to_date(j)[1], _jd_to_date(j)[2], _jd_to_date(j)[3], tz).lunar_month :
      j \in { i \in from_jd..(to_jd - 1) :
                solar_to_lunar(_jd_to_date(i)[1], _jd_to_date(i)[2],
                               _jd_to_date(i)[3], tz).is_leap } }

\* C5: in a lunar year whose anchors are more than 365 days apart, exactly
\* one month number in 1..12 is returned with is_leap = TRUE over the days
\* of that year.
C5_OneLeapMonthPerLeapYear ==
  pc = "lunar" =>
    LET b11 == NextAnchor(ret.a11, arg.date[3], CallOffset)
    IN  b11 - ret.a11 > YearDays =>
          LET flagged == FlaggedMonths(ret.a11, b11, arg.tz)
          IN  Cardinality(flagged) = 1 /\ flagged \subseteq 1..12

\* C6: solar_to_lunar returns is_leap = TRUE only when a11 is the anchor of
\* a Gregorian year whose next anchor is more than 365 days later.
C6_NoLeapInShortYear ==
  (pc = "lunar" /\ ret.is_leap)
    => NextAnchor(ret.a11, arg.date[3], CallOffset) - ret.a11 > YearDays

\* C6 witness: a11 was recomputed for year - 1, the year between the two
\* consecutive anchors has 12 lunations although b11 - a11 > 365 passed in
\* the call, and the date is not flagged.
C6_Witness ==
  /\ pc = "lunar"
  /\ ret.a11 = _lunar_month11(arg.date[3] - 1, CallOffset)
  /\ NextAnchor(ret.a11, arg.date[3], CallOffset) - ret.a11 <= YearDays
  /\ ret.b11 - ret.a11 > YearDays
  /\ ~ret.is_leap

\* C7: _leap_month_offset returns an integer in 2..14, whatever the
\* longitudes of the scanned new moons are.
C7_OffsetRange == pc \in {"leap", "scan"} => ret \in 2..14

\* C8: a lunar-to-solar request with the month outside 1..12 or a
\* non-positive day is rejected and yields no date.
C8_MalformedRejected ==
  (pc = "solar" /\ (arg.lunar_month \notin 1..12 \/ arg.lunar_day <= 0))
    => ret.raised

\* C9: solar_to_lunar returns a month in 1..12 and a day in 1..30.
C9_LunarDateRange ==
  pc = "lunar" => ret.lunar_month \in 1..12 /\ ret.lunar_day \in 1..30

\* The (lunar year, month) pairs lunar_to_solar places between the same two
\* anchors as month lm of lunar year ly (lines 233-238): months 11 and 12 of
\* one year, then months 1..10 of the next.
SameAnchors(ly, lm) ==
  LET y == IF lm < 11 THEN ly - 1 ELSE ly
  IN  {<<y, 11>>, <<y, 12>>} \cup {<<y + 1, m>> : m \in 1..10}

\* C10: in a lunar year of 13 lunations the inserted month's number, asked
\* with is_leap = FALSE, gives the regular occurrence, one lunation before
\* the one is_leap = TRUE gives; the months after it are one lunation later
\* than their offset from month 11, the months before it are not.
C10_RegularBeforeInserted ==
  (/\ pc = "solar"
   /\ ~arg.is_leap
   /\ arg.lunar_month \in 1..12
   /\ arg.lunar_day >= 1
   /\ ret.b11 - ret.a11 > YearDays)
    => LET At(p, leap) == lunar_to_solar(p[1], p[2], arg.lunar_day, leap, arg.tz)
           Months == SameAnchors(arg.lunar_year, arg.lunar_month)
           Inserted == {p \in Months : ~At(p, TRUE).raised}
           Off(p) == (p[2] + 1) % 12
       IN  /\ Cardinality(Inserted) = 1
           /\ \A p \in Inserted :
                /\ ~At(p, FALSE).raised
                /\ At(p, TRUE).k + At(p, TRUE).off = At(p, FALSE).k + At(p, FALSE).off + 1
                /\ \A q \in Months :
                     /\ Off(q) > Off(p) => At(q, FALSE).off = Off(q) + 1
                     /\ Off(q) < Off(p) => At(q, FALSE).off = Off(q)

====
